---------------------------- MODULE Messages_proofs ----------------------------
(***************************************************************************)
(* What the reports of an analytic say, for any numbers of messages that   *)
(* wrap, any depth of the mask, any window and any order of arrivals: a    *)
(* report counts what was new in its window, finds lost what has not       *)
(* arrived, and gives the least and the greatest latency.  How the queue of*)
(* reports follows the analytics there are, for any number of them.  What  *)
(* a message carries of the payload that mpmgr shares, for any size of it  *)
(* and any number of segments.  What the conversion of a binary log shows, *)
(* for any events and runs.  What the commands in messages say, for any    *)
(* flows and lists.  What a receiver shows of a message, and a line of the *)
(* binary log made text, for any sizes.  And what a receiver reads of a    *)
(* report, for any flows, windows and table of times.                      *)
(***************************************************************************)
EXTENDS MCMessages, FiniteSetTheorems, FunctionTheorems, SequenceTheorems, WellFoundedInduction,
        NaturalsInduction, TLAPS

\* No message is behind the newest by more than the mask spans.
Punctual == MaxLag < History

Number == 0..(Messages - 1)
Entry == [number : Number, latency : Int]

-------------------------------------------------------------------------------
(* Sequence numbers.                                                       *)

LEMMA HalfModulus ==
  /\ Modulus \in Nat /\ Modulus > 0 /\ Modulus \div 2 \in Nat
  /\ 2 * (Modulus \div 2) <= Modulus
  /\ Messages \in Nat /\ Messages <= Modulus \div 2
  /\ History \in Nat /\ History > 0 /\ History <= Modulus \div 2
  /\ FirstNumber \in 0..(Modulus - 1)
BY AnalyticAssumption

LEMMA Wraps ==
  ASSUME NEW m \in Nat, m > 0, NEW d \in Int, -m < d, d < m
  PROVE  d % m = IF d >= 0 THEN d ELSE d + m
OBVIOUS

LEMMA SeqNumIs ==
  ASSUME NEW n \in Number
  PROVE  /\ SeqNum(n) = IF FirstNumber + n < Modulus THEN FirstNumber + n
                        ELSE FirstNumber + n - Modulus
         /\ SeqNum(n) \in 0..(Modulus - 1)
<1> DEFINE m == Modulus
<1>1. m \in Nat /\ m > 0 /\ FirstNumber \in 0..(m - 1) /\ n \in 0..(m - 1)
  BY HalfModulus DEF Number
<1>2. SeqNum(n) = (FirstNumber + n) % m
  BY DEF SeqNum
<1> HIDE DEF m
<1>3. (FirstNumber + n) % m = IF FirstNumber + n < m THEN FirstNumber + n ELSE FirstNumber + n - m
  BY <1>1
<1>4. SeqNum(n) = IF FirstNumber + n < m THEN FirstNumber + n ELSE FirstNumber + n - m
  BY <1>2, <1>3
<1>5. SeqNum(n) \in 0..(m - 1)
  BY <1>1, <1>4
<1> QED
  BY <1>4, <1>5 DEF m

\* Between messages sent, numbers are as far apart as the messages.
LEMMA Apart ==
  ASSUME NEW a \in Number, NEW b \in Number
  PROVE  /\ Difference(SeqNum(a), SeqNum(b)) = a - b
         /\ a >= b => (SeqNum(a) - SeqNum(b)) % Modulus = a - b
<1> DEFINE m == Modulus
           h == Modulus \div 2
           x == SeqNum(a)
           y == SeqNum(b)
           d == (x - y) % m
<1>1. /\ m \in Nat /\ m > 0 /\ h \in Nat /\ 2 * h <= m
      /\ a \in Int /\ b \in Int /\ a - b < h /\ -h < a - b
  BY HalfModulus DEF Number
<1>2. x \in 0..(m - 1) /\ y \in 0..(m - 1) /\ x - y \in {a - b, a - b - m, a - b + m}
  <2>1. FirstNumber \in Int
    BY HalfModulus
  <2> QED
    BY <1>1, <2>1, SeqNumIs
<1>3. Difference(x, y) = IF d < h THEN d ELSE d - m
  BY DEF Difference
<1> HIDE DEF m, h, x, y
<1>4. x - y \in Int /\ -m < x - y /\ x - y < m
  BY <1>1, <1>2
<1>5. d = IF x - y >= 0 THEN x - y ELSE x - y + m
  BY <1>1, <1>4, Wraps
<1> HIDE DEF d
<1>6. d = IF a - b >= 0 THEN a - b ELSE a - b + m
  BY <1>1, <1>2, <1>5
<1>7. Difference(x, y) = a - b
  BY <1>1, <1>3, <1>6
<1>8. a >= b => d = a - b
  BY <1>1, <1>6
<1> QED
  BY <1>7, <1>8 DEF x, y, m, d

LEMMA Distinct ==
  ASSUME NEW a \in Number, NEW b \in Number, SeqNum(a) = SeqNum(b)
  PROVE  a = b
<1>1. Difference(SeqNum(a), SeqNum(b)) = a - b /\ Difference(SeqNum(b), SeqNum(b)) = b - b
  BY Apart
<1> QED
  BY <1>1 DEF Number

LEMMA EntryIs ==
  /\ \A n \in Number : n \in Int /\ n >= 0 /\ n < Messages
  /\ \A e \in Entry : e.number \in Number /\ e.number \in Int /\ e.latency \in Int
<1>1. \A n \in Number : n \in Int /\ n >= 0 /\ n < Messages
  BY HalfModulus DEF Number
<1>2. \A e \in Entry : e.number \in Number /\ e.latency \in Int
  BY DEF Entry
<1> QED
  BY <1>1, <1>2

-------------------------------------------------------------------------------
(* The least and the greatest.                                             *)

LEMMA LeastOf ==
  ASSUME NEW T, T \subseteq Nat, T # {}
  PROVE  \E x \in T : \A y \in T : x <= y
<1> DEFINE Less == OpToRel(<, Nat)
<1>1. IsWellFoundedOn(Less, Nat)
  BY NatLessThanWellFounded
<1>2. \A x, y \in Nat : y < x => <<y, x>> \in Less
  BY DEF OpToRel
<1> HIDE DEF Less
<1>3. PICK x \in T : \A y \in T : ~(<<y, x>> \in Less)
  BY <1>1, WFMin
<1>4. \A y \in T : x \in Nat /\ y \in Nat /\ ~(y < x)
  BY <1>2, <1>3
<1>5. \A y \in T : x <= y
  BY <1>4
<1> QED
  BY <1>3, <1>5

LEMMA MaxIs ==
  ASSUME NEW S, S \subseteq Int, NEW x \in S, \A y \in S : y <= x
  PROVE  Max(S) = x
<1>1. \A y \in S : x >= y
  OBVIOUS
<1>2. \A z \in S : (\A y \in S : z >= y) => z = x
  OBVIOUS
<1> QED
  BY <1>1, <1>2, Zenon DEF Max

LEMMA MinIs ==
  ASSUME NEW S, S \subseteq Int, NEW x \in S, \A y \in S : x <= y
  PROVE  Min(S) = x
<1>1. \A z \in S : (\A y \in S : z <= y) => z = x
  OBVIOUS
<1> QED
  BY <1>1, Zenon DEF Min

\* Numbers below a bound have a greatest.
LEMMA GreatestOf ==
  ASSUME NEW S, S \subseteq Number, S # {}
  PROVE  \E x \in S : \A y \in S : y <= x
<1> DEFINE T == {Messages - n : n \in S}
<1>1. Messages \in Nat /\ \A n \in S : n \in Int /\ n < Messages
  BY HalfModulus DEF Number
<1>2. T \subseteq Nat /\ T # {}
  BY <1>1
<1>3. PICK t \in T : \A u \in T : t <= u
  BY <1>2, LeastOf
<1>4. PICK x \in S : t = Messages - x
  BY <1>3
<1>5. ASSUME NEW y \in S PROVE y <= x
  <2>1. t <= Messages - y
    BY <1>3
  <2> QED
    BY <1>1, <1>4, <2>1
<1> QED
  BY <1>5

\* The newest message of the first i entries of l.
NewestOf(l, i) == Max({l[j].number : j \in 1..i})

LEMMA NewestIs ==
  ASSUME NEW l \in Seq(Entry), NEW i \in 1..Len(l)
  PROVE  /\ NewestOf(l, i) \in Number
         /\ \E j \in 1..i : l[j].number = NewestOf(l, i)
         /\ \A j \in 1..i : l[j].number <= NewestOf(l, i)
<1> DEFINE S == {l[j].number : j \in 1..i}
<1>1. \A j \in 1..i : l[j] \in Entry
  BY LenProperties
<1>2. S \subseteq Number
  BY <1>1 DEF Entry
<1>3. i \in 1..i
  OBVIOUS
<1>4. S # {}
  BY <1>3
<1>5. PICK x \in S : \A y \in S : y <= x
  BY <1>2, <1>4, GreatestOf
<1>6. S \subseteq Int
  BY <1>2, HalfModulus DEF Number
<1>7. NewestOf(l, i) = x
  BY <1>5, <1>6, MaxIs DEF NewestOf
<1> QED
  BY <1>2, <1>5, <1>7

-------------------------------------------------------------------------------
(* What a sequence of arrivals says: the entries after from, up to to, that*)
(* are new, and the numbers that are missing.                              *)

NewIn(l, from, to) ==
  {i \in (from + 1)..to : /\ \A j \in 1..(i - 1) : l[j].number # l[i].number
                          /\ l[i].number > NewestOf(l, from)}

MissingIn(l, from, to) ==
  {n \in NewestOf(l, from)..NewestOf(l, to) : \A i \in 1..to : l[i].number # n}

\* Only the entries up to a place matter for it.
LEMMA SameNewest ==
  ASSUME NEW l, NEW m, NEW i \in Int, \A j \in 1..i : m[j] = l[j]
  PROVE  NewestOf(m, i) = NewestOf(l, i)
<1>1. {m[j].number : j \in 1..i} = {l[j].number : j \in 1..i}
  OBVIOUS
<1> QED
  BY <1>1 DEF NewestOf

LEMMA SameNew ==
  ASSUME NEW l, NEW m, NEW from \in Nat, NEW to \in Nat, from <= to,
         \A j \in 1..to : m[j] = l[j]
  PROVE  /\ NewIn(m, from, to) = NewIn(l, from, to)
         /\ MissingIn(m, from, to) = MissingIn(l, from, to)
<1>1. NewestOf(m, from) = NewestOf(l, from) /\ NewestOf(m, to) = NewestOf(l, to)
  BY SameNewest
<1> DEFINE nf == NewestOf(l, from)
           nt == NewestOf(l, to)
<1>2. NewIn(m, from, to) =
        {i \in (from + 1)..to : /\ \A j \in 1..(i - 1) : m[j].number # m[i].number
                                /\ m[i].number > nf}
  BY <1>1 DEF NewIn
<1>3. MissingIn(m, from, to) = {n \in nf..nt : \A i \in 1..to : m[i].number # n}
  BY <1>1 DEF MissingIn
<1>4. NewIn(l, from, to) =
        {i \in (from + 1)..to : /\ \A j \in 1..(i - 1) : l[j].number # l[i].number
                                /\ l[i].number > nf}
  BY DEF NewIn
<1>5. MissingIn(l, from, to) = {n \in nf..nt : \A i \in 1..to : l[i].number # n}
  BY DEF MissingIn
<1> HIDE DEF nf, nt
<1>6. ASSUME NEW i \in (from + 1)..to
      PROVE  /\ m[i] = l[i]
             /\ \A j \in 1..(i - 1) : m[j] = l[j]
  OBVIOUS
<1>7. NewIn(m, from, to) = NewIn(l, from, to)
  BY <1>2, <1>4, <1>6
<1>8. MissingIn(m, from, to) = MissingIn(l, from, to)
  BY <1>3, <1>5
<1> QED
  BY <1>7, <1>8

LEMMA NewestGrows ==
  ASSUME NEW l \in Seq(Entry), NEW from \in 1..Len(l), NEW to \in from..Len(l)
  PROVE  NewestOf(l, from) <= NewestOf(l, to)
<1>1. to \in 1..Len(l)
  BY LenProperties
<1>2. PICK j \in 1..from : l[j].number = NewestOf(l, from)
  BY NewestIs
<1>3. j \in 1..to
  BY <1>1
<1> QED
  BY <1>1, <1>2, <1>3, NewestIs

\* One more entry.
LEMMA LongerBy ==
  ASSUME NEW l \in Seq(Entry), NEW e \in Entry
  PROVE  /\ Append(l, e) \in Seq(Entry) /\ Len(l) \in Nat
         /\ Len(Append(l, e)) = Len(l) + 1 /\ Append(l, e)[Len(l) + 1] = e
         /\ \A j \in 1..Len(l) : Append(l, e)[j] = l[j]
BY LenProperties, AppendProperties

LEMMA NewestAdded ==
  ASSUME NEW l \in Seq(Entry), Len(l) > 0, NEW e \in Entry
  PROVE  NewestOf(Append(l, e), Len(l) + 1) =
           IF e.number > NewestOf(l, Len(l)) THEN e.number ELSE NewestOf(l, Len(l))
<1> DEFINE m == Append(l, e)
           n == Len(l)
           x == NewestOf(l, n)
           S == {m[j].number : j \in 1..(n + 1)}
<1>1. /\ m \in Seq(Entry) /\ n \in Nat /\ Len(m) = n + 1 /\ m[n + 1] = e
      /\ \A j \in 1..n : m[j] = l[j]
  BY LongerBy
<1>2. n \in 1..n
  BY <1>1
<1>3. x \in Number /\ (\E j \in 1..n : l[j].number = x) /\ \A j \in 1..n : l[j].number <= x
  BY <1>2, NewestIs
<1>4. NewestOf(m, n + 1) = Max(S)
  BY DEF NewestOf
<1>5. e.number \in Int /\ x \in Int
  BY <1>3, EntryIs
<1>6. \A j \in 1..(n + 1) : m[j] \in Entry
  BY <1>1
<1>7. S \subseteq Int
  BY <1>6, EntryIs
<1> HIDE DEF m, n, x
<1>8. \A j \in 1..(n + 1) : j \in 1..n \/ j = n + 1
  BY <1>1
<1>9. n + 1 \in 1..(n + 1) /\ \A j \in 1..n : j \in 1..(n + 1)
  BY <1>1
<1>10. ASSUME e.number > x PROVE NewestOf(m, n + 1) = e.number
  <2>1. e.number \in S
    BY <1>1, <1>9
  <2>2. ASSUME NEW j \in 1..(n + 1) PROVE m[j].number <= e.number
    <3>1. CASE j \in 1..n
      <4>1. m[j].number <= x /\ m[j].number \in Int
        BY <1>1, <1>3, <1>6, <3>1, EntryIs
      <4> QED
        BY <1>5, <1>10, <4>1
    <3>2. CASE j = n + 1
      BY <1>1, <1>5, <3>2
    <3> QED
      BY <1>8, <3>1, <3>2
  <2>3. \A y \in S : y <= e.number
    BY <2>2
  <2> HIDE DEF S
  <2> QED
    BY <1>4, <1>7, <2>1, <2>3, MaxIs
<1>11. ASSUME ~(e.number > x) PROVE NewestOf(m, n + 1) = x
  <2>1. x \in S
    BY <1>1, <1>3, <1>9
  <2>2. ASSUME NEW j \in 1..(n + 1) PROVE m[j].number <= x
    <3>1. CASE j \in 1..n
      BY <1>1, <1>3, <3>1
    <3>2. CASE j = n + 1
      BY <1>1, <1>5, <1>11, <3>2
    <3> QED
      BY <1>8, <3>1, <3>2
  <2>3. \A y \in S : y <= x
    BY <2>2
  <2> HIDE DEF S
  <2> QED
    BY <1>4, <1>7, <2>1, <2>3, MaxIs
<1>12. NewestOf(m, n + 1) = IF e.number > x THEN e.number ELSE x
  BY <1>10, <1>11
<1> QED
  BY <1>12 DEF m, n, x

LEMMA NewFinite ==
  ASSUME NEW l, NEW from \in Nat, NEW to \in Nat
  PROVE  IsFiniteSet(NewIn(l, from, to)) /\ Cardinality(NewIn(l, from, to)) \in Nat
<1>1. IsFiniteSet((from + 1)..to)
  BY FS_Interval
<1>2. NewIn(l, from, to) \in SUBSET ((from + 1)..to)
  BY DEF NewIn
<1> QED
  BY <1>1, <1>2, FS_Subset, FS_CardinalityType

LEMMA OneMore ==
  ASSUME NEW A, NEW B, NEW k, \A i : i \in A <=> i \in B \/ (i = k /\ i \in A)
  PROVE  A = IF k \in A THEN B \cup {k} ELSE B
<1>1. CASE k \in A
  <2>1. A \subseteq B \cup {k} /\ B \cup {k} \subseteq A
    BY <1>1
  <2> QED
    BY <1>1, <2>1
<1>2. CASE k \notin A
  <2>1. A \subseteq B /\ B \subseteq A
    BY <1>2
  <2> QED
    BY <1>2, <2>1
<1> QED
  BY <1>1, <1>2

\* The last entry is new, or nothing changes.
LEMMA NewAdded ==
  ASSUME NEW l \in Seq(Entry), NEW e \in Entry, NEW from \in 1..Len(l)
  PROVE  LET m == Append(l, e)
             n == Len(l)
         IN /\ NewIn(m, from, n + 1) = IF n + 1 \in NewIn(m, from, n + 1)
                                       THEN NewIn(l, from, n) \cup {n + 1} ELSE NewIn(l, from, n)
            /\ n + 1 \notin NewIn(l, from, n)
            /\ n + 1 \in NewIn(m, from, n + 1) <=>
                 /\ \A j \in 1..n : l[j].number # e.number
                 /\ e.number > NewestOf(l, from)
<1> DEFINE m == Append(l, e)
           n == Len(l)
<1>1. /\ m \in Seq(Entry) /\ n \in Nat /\ Len(m) = n + 1 /\ m[n + 1] = e
      /\ \A j \in 1..n : m[j] = l[j]
  BY LongerBy
<1> HIDE DEF m, n
<1>2. from \in Nat /\ from >= 1 /\ from <= n
  BY <1>1 DEF n
<1>3. NewestOf(m, from) = NewestOf(l, from)
  BY <1>1, <1>2, SameNewest
<1>4. NewIn(m, from, n) = NewIn(l, from, n)
  BY <1>1, <1>2, SameNew
<1>5. \A i : i \in NewIn(m, from, n + 1) <=>
               i \in NewIn(m, from, n) \/ (i = n + 1 /\ i \in NewIn(m, from, n + 1))
  <2>1. \A i : i \in (from + 1)..(n + 1) <=> i \in (from + 1)..n \/ i = n + 1
    BY <1>1, <1>2
  <2> QED
    BY <2>1 DEF NewIn
<1>6. n + 1 \notin (from + 1)..n
  BY <1>1
<1>7. n + 1 \notin NewIn(l, from, n)
  BY <1>6 DEF NewIn
<1>8. NewIn(m, from, n + 1) = IF n + 1 \in NewIn(m, from, n + 1)
                              THEN NewIn(l, from, n) \cup {n + 1} ELSE NewIn(l, from, n)
  <2> DEFINE A == NewIn(m, from, n + 1)
             B == NewIn(l, from, n)
             k == n + 1
  <2>1. \A i : i \in A <=> i \in B \/ (i = k /\ i \in A)
    BY <1>4, <1>5
  <2> HIDE DEF A, B, k
  <2>2. A = IF k \in A THEN B \cup {k} ELSE B
    BY <2>1, OneMore
  <2> QED
    BY <2>2 DEF A, B, k
<1>9. n + 1 \in (from + 1)..(n + 1) /\ (n + 1) - 1 = n
  BY <1>1, <1>2
<1>10. n + 1 \in NewIn(m, from, n + 1) <=>
         /\ \A j \in 1..n : m[j].number # m[n + 1].number
         /\ m[n + 1].number > NewestOf(m, from)
  BY <1>9 DEF NewIn
<1>11. n + 1 \in NewIn(m, from, n + 1) <=>
         /\ \A j \in 1..n : l[j].number # e.number
         /\ e.number > NewestOf(l, from)
  BY <1>1, <1>3, <1>10
<1> QED
  BY <1>7, <1>8, <1>11 DEF m, n

\* A number between the newest of from and that of to is missing, or has a first entry
\* that is new: so what is new and what is missing add up.
LEMMA NewAndMissing ==
  ASSUME NEW l \in Seq(Entry), NEW from \in 1..Len(l), NEW to \in from..Len(l)
  PROVE  /\ Cardinality(NewIn(l, from, to)) \in Nat
         /\ Cardinality(MissingIn(l, from, to)) + Cardinality(NewIn(l, from, to)) =
              NewestOf(l, to) - NewestOf(l, from)
         /\ Cardinality(MissingIn(l, from, to)) \in Nat
<1> DEFINE nf == NewestOf(l, from)
           nt == NewestOf(l, to)
           N == NewIn(l, from, to)
           M == MissingIn(l, from, to)
           D == (nf + 1)..nt
           G == [i \in N |-> l[i].number]
           T == {l[i].number : i \in N}
<1>1. /\ Len(l) \in Nat /\ from \in Nat /\ from >= 1 /\ from <= to /\ to \in Nat /\ to <= Len(l)
      /\ to \in 1..Len(l)
  BY LenProperties
<1>2. /\ nf \in Int /\ nt \in Int /\ nf <= nt
      /\ (\E j \in 1..from : l[j].number = nf)
      /\ (\A j \in 1..from : l[j].number <= nf)
      /\ (\A j \in 1..to : l[j].number <= nt)
  <2>1. nf \in Number /\ nt \in Number
    BY <1>1, NewestIs
  <2>2. nf \in Int /\ nt \in Int
    BY <2>1, HalfModulus DEF Number
  <2> QED
    BY <1>1, <2>2, NewestIs, NewestGrows
<1>3. \A i \in 1..to : l[i].number \in Int
  <2>1. \A i \in 1..to : l[i] \in Entry
    BY <1>1
  <2> QED
    BY <2>1, EntryIs
<1>4. \A i : i \in N <=> /\ i \in (from + 1)..to
                         /\ \A j \in 1..(i - 1) : l[j].number # l[i].number
                         /\ l[i].number > nf
  BY DEF NewIn
<1>5. \A n : n \in M <=> n \in nf..nt /\ \A i \in 1..to : l[i].number # n
  BY DEF MissingIn
<1> HIDE DEF nf, nt, N, M
<1>6. IsFiniteSet(D) /\ Cardinality(D) = nt - nf
  <2> DEFINE a == nf + 1
  <2>1. a \in Int
    BY <1>2
  <2> HIDE DEF a
  <2>2. IsFiniteSet(a..nt) /\ Cardinality(a..nt) = IF a > nt THEN 0 ELSE nt - a + 1
    BY <1>2, <2>1, FS_Interval
  <2>3. D = a..nt
    BY DEF a
  <2> HIDE DEF D
  <2>4. (IF a > nt THEN 0 ELSE nt - a + 1) = nt - nf
    BY <1>2 DEF a
  <2> QED
    BY <2>2, <2>3, <2>4
<1>7. T \subseteq D
  <2>1. ASSUME NEW i \in N PROVE l[i].number \in D
    <3>1. i \in (from + 1)..to /\ l[i].number > nf
      BY <1>4
    <3>2. i \in 1..to
      BY <1>1, <3>1
    <3>3. l[i].number \in Int /\ l[i].number <= nt
      BY <1>2, <1>3, <3>2
    <3> QED
      BY <1>2, <3>1, <3>3
  <2> QED
    BY <2>1
<1>8. M \subseteq D
  <2>1. ASSUME NEW n \in M PROVE n \in D
    <3>1. n \in nf..nt /\ \A i \in 1..to : l[i].number # n
      BY <1>5
    <3>2. \A i \in 1..from : i \in 1..to
      BY <1>1
    <3>3. n # nf
      BY <1>2, <3>1, <3>2
    <3> QED
      BY <1>2, <3>1, <3>3
  <2> QED
    BY <2>1
<1>9. ASSUME NEW n \in D, n \notin M PROVE n \in T
  <2>1. n \in nf..nt /\ n > nf
    BY <1>2
  <2> DEFINE I == {i \in 1..to : l[i].number = n}
  <2>2. I # {} /\ I \subseteq Nat
    BY <1>1, <1>5, <1>9, <2>1
  <2>3. PICK i \in I : \A k \in I : i <= k
    BY <2>2, LeastOf
  <2>4. i \in 1..to /\ l[i].number = n
    BY <2>3
  <2>5. ASSUME NEW j \in 1..(i - 1) PROVE l[j].number # n
    <3>1. j \in 1..to /\ ~(i <= j)
      BY <1>1, <2>4
    <3> QED
      BY <2>3, <3>1
  <2>6. ~(i <= from)
    <3>1. i <= from => i \in 1..from
      BY <1>1, <2>4
    <3> QED
      BY <1>2, <2>1, <2>4, <3>1
  <2>7. i \in (from + 1)..to
    BY <1>1, <2>4, <2>6
  <2>8. i \in N
    BY <1>4, <2>1, <2>4, <2>5, <2>7
  <2> QED
    BY <2>4, <2>8
<1>10. M \cap T = {}
  <2>1. ASSUME NEW i \in N PROVE l[i].number \notin M
    <3>1. i \in 1..to
      BY <1>1, <1>4
    <3> QED
      BY <1>5, <3>1
  <2> QED
    BY <2>1
<1>11. G \in Bijection(N, T)
  <2>1. G \in [N -> T]
    OBVIOUS
  <2>2. ASSUME NEW i \in N, NEW k \in N, i < k PROVE l[i].number # l[k].number
    <3>1. i \in (from + 1)..to /\ k \in (from + 1)..to
      BY <1>4
    <3>2. i \in 1..(k - 1)
      BY <1>1, <2>2, <3>1
    <3> QED
      BY <1>4, <3>2
  <2>3. \A i, k \in N : i \in Int /\ k \in Int
    BY <1>1, <1>4
  <2>4. \A i, k \in N : i = k \/ i < k \/ k < i
    BY <2>3
  <2>5. \A i, k \in N : G[i] = G[k] => i = k
    BY <2>2, <2>4
  <2>6. \A t \in T : \E i \in N : G[i] = t
    OBVIOUS
  <2> HIDE DEF G, T
  <2> QED
    BY <2>1, <2>5, <2>6 DEF Bijection, Injection, IsInjective, Surjection
<1> HIDE DEF T, G
<1>12. IsFiniteSet(N) /\ Cardinality(N) \in Nat
  BY <1>1, NewFinite DEF N
<1>13. IsFiniteSet(T) /\ Cardinality(T) = Cardinality(N)
  BY <1>11, <1>12, FS_Bijection DEF ExistsBijection
<1>14. IsFiniteSet(M) /\ Cardinality(M) \in Nat
  BY <1>6, <1>8, FS_Subset, FS_CardinalityType
<1>15. M \cup T = D
  BY <1>7, <1>8, <1>9
<1>16. Cardinality(D) = Cardinality(M) + Cardinality(T) - Cardinality(M \cap T)
  BY <1>13, <1>14, <1>15, FS_Union
<1>17. Cardinality(M \cap T) = 0
  BY <1>10, FS_EmptySet
<1> HIDE DEF D
<1>18. Cardinality(M) + Cardinality(N) = nt - nf
  BY <1>6, <1>12, <1>13, <1>14, <1>16, <1>17
<1> QED
  BY <1>12, <1>14, <1>18 DEF N, M, nf, nt
-------------------------------------------------------------------------------
(* The mask.                                                               *)

\* The mask is of messages, of which x is the newest, that span less than History.
Spans(mask, x) ==
  /\ \A s \in mask : \E n \in Number : s = SeqNum(n)
  /\ x \in Number /\ SeqNum(x) \in mask
  /\ \A n \in Number : SeqNum(n) \in mask => n <= x /\ x - n < History

LEMMA LastIs ==
  ASSUME NEW mask, NEW x, Spans(mask, x)
  PROVE  LastSet(mask) = SeqNum(x)
<1>1. /\ x \in Number /\ SeqNum(x) \in mask
      /\ \A s \in mask : \E n \in Number : s = SeqNum(n) /\ n <= x
  BY DEF Spans
<1>2. ASSUME NEW s \in mask PROVE Difference(SeqNum(x), s) >= 0
  <2>1. PICK n \in Number : s = SeqNum(n) /\ n <= x
    BY <1>1
  <2>2. Difference(SeqNum(x), s) = x - n
    BY <1>1, <2>1, Apart
  <2> QED
    BY <1>1, <2>1, <2>2, EntryIs
<1>3. ASSUME NEW s \in mask, \A y \in mask : Difference(s, y) >= 0 PROVE s = SeqNum(x)
  <2>1. PICK n \in Number : s = SeqNum(n) /\ n <= x
    BY <1>1
  <2>2. Difference(s, SeqNum(x)) = n - x /\ n - x >= 0
    BY <1>1, <1>3, <2>1, Apart
  <2>3. n = x
    BY <1>1, <2>1, <2>2, EntryIs
  <2> QED
    BY <2>1, <2>3
<1> QED
  BY <1>1, <1>2, <1>3, Zenon DEF LastSet

LEMMA FirstIs ==
  ASSUME NEW mask, NEW x, Spans(mask, x)
  PROVE  \E n \in Number : /\ FirstSet(mask) = SeqNum(n) /\ n <= x
                           /\ \A s \in mask : \E k \in Number : s = SeqNum(k) /\ n <= k /\ k <= x
<1> DEFINE K == {k \in Number : SeqNum(k) \in mask}
<1>1. /\ x \in K /\ \A k \in K : k <= x
      /\ \A s \in mask : \E k \in K : s = SeqNum(k)
  BY DEF Spans
<1>2. K \subseteq Nat
  BY EntryIs DEF Number
<1>3. PICK n \in K : \A k \in K : n <= k
  BY <1>1, <1>2, LeastOf
<1>4. SeqNum(n) \in mask /\ n \in Number
  BY <1>3
<1>5. ASSUME NEW s \in mask PROVE Difference(s, SeqNum(n)) >= 0
  <2>1. PICK k \in K : s = SeqNum(k)
    BY <1>1
  <2>2. Difference(s, SeqNum(n)) = k - n
    BY <1>4, <2>1, Apart
  <2> QED
    BY <1>2, <1>3, <2>1, <2>2
<1>6. ASSUME NEW s \in mask, \A y \in mask : Difference(y, s) >= 0 PROVE s = SeqNum(n)
  <2>1. PICK k \in K : s = SeqNum(k)
    BY <1>1
  <2>2. Difference(SeqNum(n), s) = n - k /\ n - k >= 0
    BY <1>4, <1>6, <2>1, Apart
  <2>3. k = n
    BY <1>2, <1>3, <2>1, <2>2
  <2> QED
    BY <2>1, <2>3
<1>7. FirstSet(mask) = SeqNum(n)
  BY <1>4, <1>5, <1>6, Zenon DEF FirstSet
<1>8. ASSUME NEW s \in mask PROVE \E k \in Number : s = SeqNum(k) /\ n <= k /\ k <= x
  BY <1>1, <1>3
<1> QED
  BY <1>1, <1>3, <1>4, <1>7, <1>8

\* There is room for a message that is behind the newest by less than the mask spans.
LEMMA RoomForLate ==
  ASSUME NEW mask, NEW x, Spans(mask, x), NEW n \in Number, n <= x, x - n < History
  PROVE  CanSet(mask, SeqNum(n)) /\ Spans(mask \cup {SeqNum(n)}, x)
<1>1. /\ x \in Number /\ SeqNum(x) \in mask
      /\ \A s \in mask : \E k \in Number : s = SeqNum(k) /\ k <= x /\ x - k < History
  BY DEF Spans
<1>2. ASSUME NEW s \in mask
      PROVE  Difference(SeqNum(n), s) < History /\ Difference(s, SeqNum(n)) < History
  <2>1. PICK k \in Number : s = SeqNum(k) /\ k <= x /\ x - k < History
    BY <1>1
  <2>2. Difference(SeqNum(n), s) = n - k /\ Difference(s, SeqNum(n)) = k - n
    BY <2>1, Apart
  <2>3. k \in Int /\ n \in Int /\ x \in Int /\ History \in Int
    BY <1>1, EntryIs, HalfModulus
  <2> QED
    BY <2>1, <2>2, <2>3
<1>3. ASSUME NEW k \in Number, SeqNum(k) \in mask \cup {SeqNum(n)}
      PROVE  k <= x /\ x - k < History
  <2>1. SeqNum(k) \in mask => k <= x /\ x - k < History
    BY DEF Spans
  <2>2. SeqNum(k) = SeqNum(n) => k = n
    BY Distinct
  <2> QED
    BY <1>3, <2>1, <2>2
<1>4. \A s \in mask \cup {SeqNum(n)} : \E k \in Number : s = SeqNum(k)
  BY <1>1
<1> QED
  BY <1>1, <1>2, <1>3, <1>4 DEF CanSet, Spans

\* What there is no room beside is cleared, all of it.
LEMMA MarkedSpans ==
  ASSUME Punctual, NEW mask, NEW x, Spans(mask, x), NEW n \in Number, n >= x - MaxLag
  PROVE  /\ Spans(Marked(mask, SeqNum(n)), IF n > x THEN n ELSE x)
         /\ SeqNum(n) \in Marked(mask, SeqNum(n))
         /\ Marked(mask, SeqNum(n)) \subseteq mask \cup {SeqNum(n)}
<1>1. /\ x \in Number /\ x \in Int /\ n \in Int /\ n >= 0
      /\ History \in Nat /\ History > 0 /\ MaxLag \in Nat /\ MaxLag < History
      /\ Modulus \in Nat /\ Modulus > 0 /\ Messages <= Modulus /\ Messages \in Nat
  <2>1. x \in Number
    BY DEF Spans
  <2> QED
    BY <2>1, EntryIs, HalfModulus, AnalyticAssumption DEF Punctual
<1>2. CASE n <= x
  <2>1. x - n < History
    BY <1>1
  <2>2. CanSet(mask, SeqNum(n)) /\ Spans(mask \cup {SeqNum(n)}, x)
    BY <1>2, <2>1, RoomForLate
  <2>3. (IF n > x THEN n ELSE x) = x
    BY <1>1, <1>2
  <2> QED
    BY <2>2, <2>3 DEF Marked
<1>3. CASE n > x
  <2>1. (IF n > x THEN n ELSE x) = n
    BY <1>3
  <2>2. /\ SeqNum(x) \in mask
        /\ \A s \in mask : \E k \in Number : s = SeqNum(k)
        /\ \A k \in Number : SeqNum(k) \in mask => k <= x /\ x - k < History
    BY DEF Spans
  <2>3. CASE CanSet(mask, SeqNum(n))
    <3>1. Marked(mask, SeqNum(n)) = mask \cup {SeqNum(n)}
      BY <2>3 DEF Marked
    <3>2. ASSUME NEW k \in Number, SeqNum(k) \in mask \cup {SeqNum(n)}
          PROVE  k <= n /\ n - k < History
      <4>1. CASE SeqNum(k) = SeqNum(n)
        <5>1. k = n
          BY <4>1, Distinct
        <5> QED
          BY <1>1, <5>1
      <4>2. CASE SeqNum(k) \in mask
        <5>1. Difference(SeqNum(n), SeqNum(k)) < History
          BY <2>3, <4>2 DEF CanSet
        <5>2. n - k < History /\ k <= x /\ k \in Int
          BY <2>2, <4>2, <5>1, Apart, EntryIs
        <5> QED
          BY <1>1, <1>3, <5>2
      <4> QED
        BY <3>2, <4>1, <4>2
    <3>3. \A s \in mask \cup {SeqNum(n)} : \E k \in Number : s = SeqNum(k)
      BY <2>2
    <3>4. Spans(mask \cup {SeqNum(n)}, n)
      BY <3>2, <3>3 DEF Spans
    <3> QED
      BY <2>1, <3>1, <3>4
  <2>4. CASE ~CanSet(mask, SeqNum(n))
    <3>1. PICK f \in Number : /\ FirstSet(mask) = SeqNum(f) /\ f <= x
                              /\ \A s \in mask : \E k \in Number : s = SeqNum(k) /\ f <= k /\ k <= x
      BY FirstIs
    <3>2. f \in Int /\ f >= 0
      BY <3>1, EntryIs
    <3> DEFINE d == Difference(SeqNum(n), FirstSet(mask))
    <3>3. d = n - f
      BY <3>1, Apart
    <3>4. d \in Int /\ d > 0 /\ d < Modulus
      <4>1. n < Messages
        BY EntryIs
      <4> QED
        BY <1>1, <1>3, <3>1, <3>2, <3>3, <4>1
    <3> HIDE DEF d
    <3>5. d % Modulus = d
      BY <1>1, <3>4, Wraps
    <3>6. ASSUME NEW s \in mask PROVE ~((s - FirstSet(mask)) % Modulus >= d % Modulus)
      <4>1. PICK k \in Number : s = SeqNum(k) /\ f <= k /\ k <= x
        BY <3>1
      <4>2. k \in Int
        BY <4>1, EntryIs
      <4>3. k >= f
        BY <3>2, <4>1, <4>2
      <4>4. (s - FirstSet(mask)) % Modulus = k - f
        BY <3>1, <4>1, <4>3, Apart
      <4> QED
        BY <1>1, <1>3, <3>2, <3>3, <3>5, <4>1, <4>2, <4>4
    <3>7. UnsetBits(mask, FirstSet(mask), d) = {}
      BY <3>6 DEF UnsetBits
    <3>8. Marked(mask, SeqNum(n)) = {SeqNum(n)}
      BY <2>4, <3>7 DEF Marked, d
    <3>9. ASSUME NEW k \in Number, SeqNum(k) \in {SeqNum(n)}
          PROVE  k <= n /\ n - k < History
      <4>1. k = n
        BY <3>9, Distinct
      <4> QED
        BY <1>1, <4>1
    <3>10. Spans({SeqNum(n)}, n)
      BY <3>9 DEF Spans
    <3> QED
      BY <2>1, <3>8, <3>10
  <2> QED
    BY <2>3, <2>4
<1> QED
  BY <1>1, <1>2, <1>3
-------------------------------------------------------------------------------
(* An arrival in a window.                                                 *)

Record ==
  [start : Int, end : Int, count : Nat, bytes : Nat, dups : Nat,
   seqStart : Int, mask : SUBSET Int, sum : Int, min : Int, max : Int,
   forgotten : SUBSET Int, recounted : BOOLEAN]

\* The mask of the window that entry from opened, after the entries of l.
Masked(a, l, from) ==
  /\ a.seqStart = SeqNum(NewestOf(l, from))
  /\ Spans(a.mask, NewestOf(l, Len(l)))
  /\ \A s \in a.mask \cup a.forgotten : \E i \in 1..Len(l) : s = SeqNum(l[i].number)
  /\ \A i \in 1..Len(l) :
       l[i].number >= NewestOf(l, from) => SeqNum(l[i].number) \in a.mask \cup a.forgotten

SameWindow(a, b) == b.start = a.start /\ b.end = a.end /\ b.seqStart = a.seqStart

SameCounts(a, b) ==
  /\ b.count = a.count /\ b.bytes = a.bytes /\ b.min = a.min /\ b.max = a.max
  /\ b.forgotten = a.forgotten /\ b.recounted = a.recounted

CountsOneMore(a, b, seq, latency) ==
  /\ b.count = a.count + 1
  /\ b.bytes = IF a.count = 1 THEN 1 ELSE a.bytes + 1
  /\ b.min = Min({a.min, latency}) /\ b.max = Max({a.max, latency})
  /\ b.mask = Marked(a.mask, seq)
  /\ b.forgotten = a.forgotten \cup (a.mask \ Marked(a.mask, seq))
  /\ b.recounted = (a.recounted \/ seq \in a.forgotten)

LEMMA LeastOfTwo ==
  ASSUME NEW u \in Int, NEW v \in Int
  PROVE  /\ Min({u, v}) = IF u <= v THEN u ELSE v
         /\ Max({u, v}) = IF u >= v THEN u ELSE v
         /\ Min({u, v}) \in Int /\ Max({u, v}) \in Int
<1> DEFINE S == {u, v}
<1>1. S \subseteq Int /\ u \in S /\ v \in S
  OBVIOUS
<1>2. u <= v => (\A y \in S : u <= y) /\ (\A y \in S : y <= v)
  OBVIOUS
<1>3. v <= u => (\A y \in S : v <= y) /\ (\A y \in S : y <= u)
  OBVIOUS
<1> HIDE DEF S
<1>4. u <= v => Min(S) = u /\ Max(S) = v
  BY <1>1, <1>2, MinIs, MaxIs
<1>5. v <= u => Min(S) = v /\ Max(S) = u
  BY <1>1, <1>3, MinIs, MaxIs
<1>6. Min(S) = IF u <= v THEN u ELSE v
  BY <1>4, <1>5
<1>7. Max(S) = IF u >= v THEN u ELSE v
  BY <1>4, <1>5
<1> QED
  BY <1>6, <1>7 DEF S

LEMMA MarkedIn ==
  ASSUME NEW mask \in SUBSET Int, NEW seq \in Int
  PROVE  Marked(mask, seq) \in SUBSET Int
BY DEF Marked, UnsetBits

\* What an arrival does to the window.
LEMMA ArrivalIs ==
  ASSUME NEW a \in Record, NEW seq \in Int, NEW latency \in Int
  PROVE  LET b == Arrival(a, seq, latency)
         IN /\ b \in Record /\ SameWindow(a, b)
            /\ Duplicate(a, seq) => SameCounts(a, b) /\ b.mask = a.mask
            /\ ~Duplicate(a, seq) /\ Precedes(a, seq) =>
                 /\ SameCounts(a, b)
                 /\ b.mask = IF CanSet(a.mask, seq) THEN a.mask \cup {seq} ELSE a.mask
            /\ New(a, seq) => CountsOneMore(a, b, seq, latency)
<1> DEFINE b == Arrival(a, seq, latency)
<1>1. CASE Duplicate(a, seq)
  <2>1. b = [a EXCEPT !.dups = @ + 1]
    BY <1>1 DEF Arrival
  <2>2. b \in Record /\ SameWindow(a, b) /\ SameCounts(a, b) /\ b.mask = a.mask
    BY <2>1 DEF Record, SameWindow, SameCounts
  <2> QED
    BY <1>1, <2>2 DEF New
<1>2. CASE ~Duplicate(a, seq) /\ Precedes(a, seq)
  <2> DEFINE k == IF CanSet(a.mask, seq) THEN a.mask \cup {seq} ELSE a.mask
  <2>1. b = [a EXCEPT !.mask = k]
    BY <1>2 DEF Arrival
  <2>2. k \in SUBSET Int
    BY DEF Record
  <2> HIDE DEF k
  <2>3. b \in Record /\ SameWindow(a, b) /\ SameCounts(a, b) /\ b.mask = k
    BY <2>1, <2>2 DEF Record, SameWindow, SameCounts
  <2> QED
    BY <1>2, <2>3 DEF New, k
<1>3. CASE New(a, seq)
  <2> DEFINE c == Mark(a, seq)
             k == Marked(a.mask, seq)
             f == a.forgotten \cup (a.mask \ k)
             r == a.recounted \/ seq \in a.forgotten
             lo == Min({a.min, latency})
             hi == Max({a.max, latency})
             y == IF a.count = 1 THEN 1 ELSE a.bytes + 1
  <2>1. /\ a.mask \in SUBSET Int /\ a.min \in Int /\ a.max \in Int
        /\ a.count \in Nat /\ a.bytes \in Nat
    BY DEF Record
  <2>2. k \in SUBSET Int /\ lo \in Int /\ hi \in Int
    BY <2>1, MarkedIn, LeastOfTwo
  <2>3. f \in SUBSET Int /\ r \in BOOLEAN /\ y \in Nat
    BY <2>1 DEF Record
  <2>4. c = [a EXCEPT !.mask = k, !.forgotten = f, !.recounted = r]
    BY DEF Mark
  <2>5. b = Counted(c, latency)
    BY <1>3 DEF Arrival, New
  <2> HIDE DEF c, k, f, r
  <2>6. /\ c \in Record /\ SameWindow(a, c)
        /\ c.count = a.count /\ c.bytes = a.bytes /\ c.min = a.min /\ c.max = a.max
        /\ c.mask = k /\ c.forgotten = f /\ c.recounted = r
    BY <2>2, <2>3, <2>4 DEF Record, SameWindow
  <2> DEFINE cn == c.count + 1
             su == c.sum + latency
  <2>7. b = [c EXCEPT !.count = cn, !.bytes = y, !.sum = su, !.min = lo, !.max = hi]
    BY <2>5, <2>6 DEF Counted, Record
  <2>8. cn \in Nat /\ su \in Int /\ cn = a.count + 1
    BY <2>6 DEF Record
  <2> HIDE DEF b, lo, hi, y, cn, su
  <2>9. /\ b \in Record /\ SameWindow(a, b)
        /\ b.count = a.count + 1 /\ b.bytes = y /\ b.min = lo /\ b.max = hi
        /\ b.mask = k /\ b.forgotten = f /\ b.recounted = r
    BY <2>2, <2>3, <2>6, <2>7, <2>8 DEF Record, SameWindow
  <2>10. CountsOneMore(a, b, seq, latency)
    BY <2>9 DEF CountsOneMore, k, f, r, lo, hi, y
  <2> QED
    BY <1>3, <2>9, <2>10 DEF New, b
<1> QED
  BY <1>1, <1>2, <1>3 DEF New

\* The mask goes with the entries.
LEMMA StaysMasked ==
  ASSUME NEW a, NEW b, NEW l \in Seq(Entry), NEW from \in 1..Len(l), NEW e \in Entry,
         Masked(a, l, from), SameWindow(a, b),
         Spans(b.mask, NewestOf(Append(l, e), Len(l) + 1)), SeqNum(e.number) \in b.mask,
         a.mask \cup a.forgotten \subseteq b.mask \cup b.forgotten,
         b.mask \cup b.forgotten \subseteq a.mask \cup a.forgotten \cup {SeqNum(e.number)}
  PROVE  Masked(b, Append(l, e), from)
<1> DEFINE m == Append(l, e)
           n == Len(l)
<1>1. /\ n \in Nat /\ Len(m) = n + 1 /\ m[n + 1] = e /\ \A j \in 1..n : m[j] = l[j]
  BY LongerBy
<1>2. from \in Int /\ \A j \in 1..from : m[j] = l[j]
  BY <1>1
<1>3. NewestOf(m, from) = NewestOf(l, from)
  BY <1>2, SameNewest
<1>4. ASSUME NEW s \in b.mask \cup b.forgotten PROVE \E i \in 1..(n + 1) : s = SeqNum(m[i].number)
  <2>1. CASE s = SeqNum(e.number)
    <3>1. n + 1 \in 1..(n + 1)
      BY <1>1
    <3> QED
      BY <1>1, <2>1, <3>1
  <2>2. CASE s \in a.mask \cup a.forgotten
    <3>1. PICK i \in 1..n : s = SeqNum(l[i].number)
      BY <2>2 DEF Masked
    <3>2. i \in 1..(n + 1) /\ m[i] = l[i]
      BY <1>1
    <3> QED
      BY <3>1, <3>2
  <2> QED
    BY <2>1, <2>2
<1>5. ASSUME NEW i \in 1..(n + 1), m[i].number >= NewestOf(l, from)
      PROVE  SeqNum(m[i].number) \in b.mask \cup b.forgotten
  <2>1. CASE i = n + 1
    BY <1>1, <2>1
  <2>2. CASE i \in 1..n
    <3>1. SeqNum(l[i].number) \in a.mask \cup a.forgotten
      BY <1>1, <1>5, <2>2 DEF Masked
    <3> QED
      BY <1>1, <2>2, <3>1
  <2> QED
    BY <1>1, <2>1, <2>2
<1>6. b.seqStart = SeqNum(NewestOf(m, from))
  BY <1>3 DEF Masked, SameWindow
<1> QED
  BY <1>1, <1>3, <1>4, <1>5, <1>6 DEF Masked

LEMMA ArrivalMasked ==
  ASSUME Punctual, NEW l \in Seq(Entry), NEW from \in 1..Len(l), NEW e \in Entry,
         NEW a \in Record, Masked(a, l, from), e.number >= NewestOf(l, Len(l)) - MaxLag
  PROVE  Masked(Arrival(a, SeqNum(e.number), e.latency), Append(l, e), from)
<1> DEFINE seq == SeqNum(e.number)
           b == Arrival(a, seq, e.latency)
           n == Len(l)
           x == NewestOf(l, n)
           x2 == NewestOf(Append(l, e), n + 1)
<1>1. n \in Nat /\ n > 0 /\ n \in 1..n /\ n \in from..n
  BY LenProperties
<1>2. x2 = IF e.number > x THEN e.number ELSE x
  BY <1>1, NewestAdded
<1>3. /\ e.number \in Number /\ e.number \in Int /\ e.latency \in Int /\ seq \in Int
      /\ x \in Number /\ x \in Int /\ NewestOf(l, from) \in Number /\ NewestOf(l, from) \in Int
      /\ NewestOf(l, from) <= x
  BY <1>1, EntryIs, SeqNumIs, NewestIs, NewestGrows
<1>4. Spans(a.mask, x) /\ a.seqStart = SeqNum(NewestOf(l, from))
  BY DEF Masked
<1>5. /\ SameWindow(a, b)
      /\ Duplicate(a, seq) => SameCounts(a, b) /\ b.mask = a.mask
      /\ ~Duplicate(a, seq) /\ Precedes(a, seq) =>
           /\ SameCounts(a, b)
           /\ b.mask = IF CanSet(a.mask, seq) THEN a.mask \cup {seq} ELSE a.mask
      /\ New(a, seq) => CountsOneMore(a, b, seq, e.latency)
  BY <1>3, ArrivalIs
<1>6. /\ Spans(b.mask, x2) /\ seq \in b.mask
      /\ a.mask \cup a.forgotten \subseteq b.mask \cup b.forgotten
      /\ b.mask \cup b.forgotten \subseteq a.mask \cup a.forgotten \cup {seq}
  <2>1. CASE Duplicate(a, seq)
    <3>1. seq \in a.mask
      BY <2>1 DEF Duplicate
    <3>2. e.number <= x
      BY <1>3, <1>4, <3>1 DEF Spans
    <3>3. x2 = x
      BY <1>2, <1>3, <3>2
    <3> QED
      BY <1>4, <1>5, <2>1, <3>1, <3>3 DEF SameCounts
  <2>2. CASE ~Duplicate(a, seq) /\ Precedes(a, seq)
    <3>1. Difference(seq, a.seqStart) = e.number - NewestOf(l, from)
      BY <1>3, <1>4, Apart
    <3>2. e.number < NewestOf(l, from)
      BY <1>3, <2>2, <3>1 DEF Precedes
    <3>3. e.number <= x /\ x - e.number < History
      BY <1>3, <3>2, HalfModulus, AnalyticAssumption DEF Punctual
    <3>4. CanSet(a.mask, seq) /\ Spans(a.mask \cup {seq}, x)
      BY <1>3, <1>4, <3>3, RoomForLate
    <3>5. x2 = x
      BY <1>2, <1>3, <3>3
    <3> QED
      BY <1>5, <2>2, <3>4, <3>5 DEF SameCounts
  <2>3. CASE New(a, seq)
    <3>1. /\ Spans(Marked(a.mask, seq), x2) /\ seq \in Marked(a.mask, seq)
          /\ Marked(a.mask, seq) \subseteq a.mask \cup {seq}
      BY <1>2, <1>3, <1>4, MarkedSpans
    <3>2. b.mask = Marked(a.mask, seq) /\ b.forgotten = a.forgotten \cup (a.mask \ b.mask)
      BY <1>5, <2>3 DEF CountsOneMore
    <3> QED
      BY <3>1, <3>2
  <2> QED
    BY <2>1, <2>2, <2>3 DEF New
<1> HIDE DEF seq, b, x2, x
<1>7. SeqNum(e.number) = seq /\ x2 = NewestOf(Append(l, e), Len(l) + 1)
  BY DEF seq, x2
<1>8. Masked(b, Append(l, e), from)
  BY <1>5, <1>6, <1>7, StaysMasked
<1> QED
  BY <1>8 DEF b, seq
-------------------------------------------------------------------------------
(* What a window counts.                                                   *)

\* The entries that are new in the window that entry from opened.
CountsNew(a, l, from) ==
  LET new == Cardinality(NewIn(l, from, Len(l)))
  IN /\ a.count = 1 + new
     /\ a.bytes = IF from = 1 /\ new = 0 THEN 1 ELSE new

\* The least and the greatest latency, with that of the entry that opened the window.
Latencies(l, from, to) == {l[i].latency : i \in NewIn(l, from, to) \cup {from}}

Extremes(a, l, from) ==
  /\ a.min \in Latencies(l, from, Len(l)) /\ a.max \in Latencies(l, from, Len(l))
  /\ \A x \in Latencies(l, from, Len(l)) : a.min <= x /\ x <= a.max

\* The code takes a message for new exactly when it is, unless it forgot that it came.
LEMMA NewKnown ==
  ASSUME NEW l \in Seq(Entry), NEW from \in 1..Len(l), NEW e \in Entry,
         NEW a, Masked(a, l, from), SeqNum(e.number) \in a.forgotten => ~New(a, SeqNum(e.number))
  PROVE  New(a, SeqNum(e.number)) <=> Len(l) + 1 \in NewIn(Append(l, e), from, Len(l) + 1)
<1> DEFINE seq == SeqNum(e.number)
           n == Len(l)
           nf == NewestOf(l, from)
<1>1. /\ e.number \in Number /\ e.number \in Int /\ nf \in Number /\ nf \in Int
      /\ \A i \in 1..n : l[i].number \in Number
  <2>1. \A i \in 1..n : l[i] \in Entry
    BY LenProperties
  <2> QED
    BY <2>1, EntryIs, NewestIs
<1>2. Len(l) + 1 \in NewIn(Append(l, e), from, Len(l) + 1) <=>
        /\ \A j \in 1..n : l[j].number # e.number
        /\ e.number > nf
  BY NewAdded
<1>3. Difference(seq, a.seqStart) = e.number - nf
  BY <1>1, Apart DEF Masked
<1>4. Precedes(a, seq) <=> e.number < nf
  BY <1>1, <1>3 DEF Precedes
<1>5. ASSUME New(a, seq), NEW j \in 1..n, l[j].number = e.number PROVE FALSE
  <2>1. e.number >= nf
    BY <1>1, <1>4, <1>5 DEF New
  <2>2. seq \in a.mask \cup a.forgotten
    BY <1>5, <2>1 DEF Masked
  <2>3. seq \notin a.mask /\ seq \notin a.forgotten
    BY <1>5 DEF New, Duplicate
  <2> QED
    BY <2>2, <2>3
<1>6. ASSUME New(a, seq) PROVE e.number > nf
  <2>1. e.number >= nf
    BY <1>1, <1>4, <1>6 DEF New
  <2>2. PICK j \in 1..from : l[j].number = nf
    BY NewestIs
  <2>3. j \in 1..n
    BY LenProperties
  <2>4. e.number # nf
    BY <1>5, <1>6, <2>2, <2>3
  <2> QED
    BY <1>1, <2>1, <2>4
<1>7. ASSUME \A j \in 1..n : l[j].number # e.number, e.number > nf PROVE New(a, seq)
  <2>1. seq \notin a.mask
    <3>1. SUFFICES ASSUME seq \in a.mask PROVE FALSE
      OBVIOUS
    <3>2. PICK j \in 1..n : seq = SeqNum(l[j].number)
      BY <3>1 DEF Masked
    <3>3. e.number = l[j].number
      BY <1>1, <3>2, Distinct
    <3> QED
      BY <1>7, <3>3
  <2>2. ~Precedes(a, seq)
    BY <1>1, <1>4, <1>7
  <2> QED
    BY <2>1, <2>2 DEF New, Duplicate
<1> QED
  BY <1>2, <1>5, <1>6, <1>7

LEMMA StaysCounted ==
  ASSUME NEW a, NEW b, NEW l \in Seq(Entry), NEW from \in 1..Len(l), NEW e \in Entry, NEW seq,
         IF Len(l) + 1 \in NewIn(Append(l, e), from, Len(l) + 1)
         THEN CountsOneMore(a, b, seq, e.latency) ELSE SameCounts(a, b),
         CountsNew(a, l, from)
  PROVE  CountsNew(b, Append(l, e), from)
<1> DEFINE m == Append(l, e)
           n == Len(l)
           S == NewIn(l, from, n)
           T == NewIn(m, from, n + 1)
           k == n + 1
<1>1. n \in Nat /\ Len(m) = n + 1 /\ from \in Nat
  BY LongerBy
<1>2. T = (IF k \in T THEN S \cup {k} ELSE S) /\ k \notin S
  BY NewAdded
<1>3. IsFiniteSet(S) /\ Cardinality(S) \in Nat
  BY <1>1, NewFinite
<1>4. IF k \in T THEN CountsOneMore(a, b, seq, e.latency) ELSE SameCounts(a, b)
  OBVIOUS
<1>5. /\ a.count = 1 + Cardinality(S)
      /\ a.bytes = IF from = 1 /\ Cardinality(S) = 0 THEN 1 ELSE Cardinality(S)
  BY DEF CountsNew
<1> HIDE DEF S, T, k
<1>6. CASE k \in T
  <2>1. Cardinality(T) = Cardinality(S) + 1
    BY <1>2, <1>3, <1>6, FS_AddElement
  <2>2. b.count = a.count + 1 /\ b.bytes = IF a.count = 1 THEN 1 ELSE a.bytes + 1
    BY <1>4, <1>6 DEF CountsOneMore
  <2>3. b.count = 1 + Cardinality(T) /\ b.bytes = Cardinality(T) /\ Cardinality(T) # 0
    BY <1>3, <1>5, <2>1, <2>2
  <2> QED
    BY <1>1, <2>3 DEF CountsNew, T
<1>7. CASE k \notin T
  <2>1. T = S /\ b.count = a.count /\ b.bytes = a.bytes
    BY <1>2, <1>4, <1>7 DEF SameCounts
  <2> QED
    BY <1>1, <1>5, <2>1 DEF CountsNew, T
<1> QED
  BY <1>6, <1>7

LEMMA StaysExtreme ==
  ASSUME NEW a \in Record, NEW b, NEW l \in Seq(Entry), NEW from \in 1..Len(l), NEW e \in Entry,
         NEW seq,
         IF Len(l) + 1 \in NewIn(Append(l, e), from, Len(l) + 1)
         THEN CountsOneMore(a, b, seq, e.latency) ELSE SameCounts(a, b),
         Extremes(a, l, from)
  PROVE  Extremes(b, Append(l, e), from)
<1> DEFINE m == Append(l, e)
           n == Len(l)
           S == NewIn(l, from, n)
           T == NewIn(m, from, n + 1)
           k == n + 1
           L == Latencies(l, from, n)
           M == Latencies(m, from, n + 1)
<1>1. /\ n \in Nat /\ Len(m) = n + 1 /\ from \in 1..n /\ from \in Nat /\ m[n + 1] = e
      /\ \A j \in 1..n : m[j] = l[j] /\ l[j] \in Entry
  BY LongerBy, LenProperties
<1>2. T = (IF k \in T THEN S \cup {k} ELSE S) /\ k \notin S
  BY NewAdded
<1>3. \A i \in S \cup {from} : i \in 1..n
  BY <1>1 DEF NewIn
<1>4. IF k \in T THEN CountsOneMore(a, b, seq, e.latency) ELSE SameCounts(a, b)
  OBVIOUS
<1>5. a.min \in L /\ a.max \in L /\ \A x \in L : a.min <= x /\ x <= a.max
  BY DEF Extremes
<1>6. L = {l[i].latency : i \in S \cup {from}} /\ M = {m[i].latency : i \in T \cup {from}}
  BY DEF Latencies
<1>7. a.min \in Int /\ a.max \in Int /\ e.latency \in Int
  BY EntryIs DEF Record
<1>8. L \subseteq Int
  BY <1>1, <1>3, <1>6, EntryIs
<1>9. m[k] = e
  BY <1>1
<1> HIDE DEF S, T, k, L, M, m, n
<1>10. \A i \in S \cup {from} : m[i].latency = l[i].latency
  BY <1>1, <1>3
<1>11. CASE k \in T
  <2>1. T = S \cup {k}
    BY <1>2, <1>11
  <2>2. \A x : x \in M <=> x \in L \/ x = e.latency
    BY <1>6, <1>9, <1>10, <2>1
  <2>3. b.min = Min({a.min, e.latency}) /\ b.max = Max({a.max, e.latency})
    BY <1>4, <1>11 DEF CountsOneMore
  <2>4. /\ b.min = IF a.min <= e.latency THEN a.min ELSE e.latency
        /\ b.max = IF a.max >= e.latency THEN a.max ELSE e.latency
    BY <1>7, <2>3, LeastOfTwo
  <2>5. b.min \in M /\ b.max \in M
    BY <1>5, <2>2, <2>4
  <2>6. ASSUME NEW x \in M PROVE b.min <= x /\ x <= b.max
    <3>1. CASE x = e.latency
      BY <1>7, <2>4, <3>1
    <3>2. CASE x \in L
      <4>1. x \in Int /\ a.min <= x /\ x <= a.max
        BY <1>5, <1>8, <3>2
      <4> QED
        BY <1>7, <2>4, <4>1
    <3> QED
      BY <2>2, <3>1, <3>2
  <2> QED
    BY <1>1, <2>5, <2>6 DEF Extremes, M, m, n
<1>12. CASE k \notin T
  <2>1. T = S /\ b.min = a.min /\ b.max = a.max
    BY <1>2, <1>4, <1>12 DEF SameCounts
  <2>2. M = L
    BY <1>6, <1>10, <2>1
  <2> QED
    BY <1>1, <1>5, <2>1, <2>2 DEF Extremes, M, m, n
<1> QED
  BY <1>11, <1>12
-------------------------------------------------------------------------------
(* The first window, the next window and the report.                       *)

LEMMA FirstWindow ==
  ASSUME NEW e \in Entry, NEW time \in Int
  PROVE  LET a == Opened(SeqNum(e.number), time, e.latency)
             l == Append(<< >>, e)
         IN /\ l \in Seq(Entry) /\ Len(l) = 1
            /\ a \in Record /\ Masked(a, l, 1) /\ CountsNew(a, l, 1) /\ Extremes(a, l, 1)
<1> DEFINE a == Opened(SeqNum(e.number), time, e.latency)
           l == Append(<< >>, e)
           seq == SeqNum(e.number)
           x == NewestOf(l, 1)
<1>1. << >> \in Seq(Entry) /\ Len(<< >>) = 0
  BY EmptySeq
<1>2. l \in Seq(Entry) /\ Len(l) = 1 /\ l[1] = e
  BY <1>1, LongerBy
<1>3. e.number \in Number /\ e.latency \in Int /\ seq \in Int /\ Window \in Int
  BY EntryIs, SeqNumIs, AnalyticAssumption
<1> HIDE DEF l, seq
<1>4. x = e.number
  <2>1. 1 \in 1..Len(l)
    BY <1>2
  <2>2. \E j \in 1..1 : l[j].number = x
    BY <1>2, <2>1, NewestIs
  <2>3. \A j \in 1..1 : j = 1
    OBVIOUS
  <2> QED
    BY <1>2, <2>2, <2>3
<1>5. /\ a \in Record /\ a.seqStart = seq /\ a.mask = {seq} /\ a.forgotten = {}
      /\ a.count = 1 /\ a.bytes = 1 /\ a.min = e.latency /\ a.max = e.latency
  <2> DEFINE z == e.latency
             y == time + Window
  <2>1. z \in Int /\ y \in Int
    BY <1>3
  <2>2. a = [start |-> time, end |-> y, count |-> 1, bytes |-> 1, dups |-> 0,
             seqStart |-> seq, mask |-> {seq}, sum |-> z, min |-> z, max |-> z,
             forgotten |-> {}, recounted |-> FALSE]
    BY DEF Opened, seq
  <2> HIDE DEF a, z, y
  <2>3. /\ a \in Record /\ a.seqStart = seq /\ a.mask = {seq} /\ a.forgotten = {}
        /\ a.count = 1 /\ a.bytes = 1 /\ a.min = z /\ a.max = z
    BY <1>3, <2>1, <2>2 DEF Record
  <2> QED
    BY <2>3 DEF z
<1> HIDE DEF a, x
<1>6. Spans({seq}, x)
  <2>1. ASSUME NEW n \in Number, SeqNum(n) \in {seq} PROVE n <= x /\ x - n < History
    <3>1. n = e.number
      BY <1>3, <2>1, Distinct DEF seq
    <3>2. n \in Int
      BY EntryIs
    <3> QED
      BY <1>4, <3>1, <3>2, HalfModulus
  <2> QED
    BY <1>3, <1>4, <2>1 DEF Spans, seq
<1>7. \A i \in 1..Len(l) : i = 1
  BY <1>2
<1>8. Masked(a, l, 1)
  <2>1. 1 \in 1..Len(l)
    BY <1>2
  <2>2. x = NewestOf(l, 1) /\ NewestOf(l, Len(l)) = x
    BY <1>2 DEF x
  <2>3. \A s \in a.mask \cup a.forgotten : s = SeqNum(l[1].number)
    BY <1>2, <1>5 DEF seq
  <2>4. \A i \in 1..Len(l) : SeqNum(l[i].number) \in a.mask
    BY <1>2, <1>5, <1>7 DEF seq
  <2> QED
    BY <1>4, <1>5, <1>6, <2>1, <2>2, <2>3, <2>4 DEF Masked, seq
<1>9. NewIn(l, 1, Len(l)) = {}
  BY <1>2 DEF NewIn
<1>10. CountsNew(a, l, 1)
  <2>1. Cardinality(NewIn(l, 1, Len(l))) = 0
    BY <1>9, FS_EmptySet
  <2> QED
    BY <1>5, <2>1 DEF CountsNew
<1>11. Latencies(l, 1, Len(l)) = {e.latency}
  BY <1>2, <1>9 DEF Latencies
<1>12. Extremes(a, l, 1)
  BY <1>3, <1>5, <1>11 DEF Extremes
<1> QED
  BY <1>2, <1>5, <1>8, <1>10, <1>12 DEF a, l, seq

\* The last entry opens the next window.
LEMMA WindowOpens ==
  ASSUME NEW l \in Seq(Entry), NEW from \in 1..Len(l), Len(l) > 1, NEW a \in Record,
         Masked(a, l, from), NEW time \in Int, NEW latency \in Int
  PROVE  LET w == NextWindow(a, time, latency)
         IN /\ w \in Record /\ w.recounted = a.recounted
            /\ Masked(w, l, Len(l)) /\ CountsNew(w, l, Len(l))
            /\ latency = l[Len(l)].latency => Extremes(w, l, Len(l))
<1> DEFINE w == NextWindow(a, time, latency)
           n == Len(l)
           x == NewestOf(l, n)
           y == time + Window
<1>1. n \in Nat /\ n > 1 /\ n \in 1..n
  BY LenProperties
<1>2. LastSet(a.mask) = SeqNum(x) /\ Spans(a.mask, x) /\ SeqNum(x) \in a.mask /\ x \in Number
  BY LastIs DEF Masked, Spans
<1>3. y \in Int /\ SeqNum(x) \in Int
  BY <1>2, AnalyticAssumption, SeqNumIs
<1>4. w = [a EXCEPT !.start = time, !.end = y, !.seqStart = SeqNum(x), !.bytes = 0, !.count = 1,
                    !.sum = latency, !.min = latency, !.max = latency]
  BY <1>2 DEF NextWindow
<1> DEFINE q == SeqNum(x)
<1>5. /\ q \in Int
      /\ w = [a EXCEPT !.start = time, !.end = y, !.seqStart = q, !.bytes = 0, !.count = 1,
                       !.sum = latency, !.min = latency, !.max = latency]
  BY <1>3, <1>4
<1> HIDE DEF w, y, q
<1>6. /\ w \in Record /\ w.recounted = a.recounted
      /\ w.mask = a.mask /\ w.forgotten = a.forgotten /\ w.seqStart = q
      /\ w.count = 1 /\ w.bytes = 0 /\ w.min = latency /\ w.max = latency
  BY <1>3, <1>5 DEF Record
<1>7. Masked(w, l, n)
  <2>1. ASSUME NEW i \in 1..n, l[i].number >= x PROVE SeqNum(l[i].number) \in w.mask
    <3>1. l[i].number <= x /\ l[i] \in Entry
      BY <1>1, NewestIs, LenProperties
    <3>2. l[i].number = x
      BY <1>2, <2>1, <3>1, EntryIs
    <3> QED
      BY <1>2, <1>6, <3>2
  <2>2. \A s \in w.mask \cup w.forgotten : \E i \in 1..n : s = SeqNum(l[i].number)
    BY <1>6 DEF Masked
  <2> QED
    BY <1>2, <1>6, <2>1, <2>2 DEF Masked, q
<1>8. NewIn(l, n, n) = {}
  <2>1. (n + 1)..n = {}
    BY <1>1
  <2> QED
    BY <2>1 DEF NewIn
<1>9. CountsNew(w, l, n)
  <2>1. Cardinality(NewIn(l, n, Len(l))) = 0
    BY <1>8, FS_EmptySet
  <2> DEFINE c == Cardinality(NewIn(l, n, Len(l)))
  <2>2. c = 0
    BY <2>1
  <2> HIDE DEF c, n
  <2>3. n # 1
    BY <1>1
  <2>4. w.count = 1 + c /\ w.bytes = IF n = 1 /\ c = 0 THEN 1 ELSE c
    BY <1>6, <2>2, <2>3
  <2> USE DEF n
  <2> QED
    BY <2>4 DEF CountsNew, c
<1>10. Latencies(l, n, n) = {l[n].latency}
  BY <1>8 DEF Latencies
<1>11. ASSUME latency = l[n].latency PROVE Extremes(w, l, n)
  BY <1>6, <1>10, <1>11 DEF Extremes
<1> QED
  BY <1>6, <1>7, <1>9, <1>11 DEF w, n

\* What a report says of the window that entry from opened and entry to closed.
Fits(r, l, from, to) ==
  LET new == Cardinality(NewIn(l, from, to))
  IN /\ r.count = Max({1, new})
     /\ r.bytes = IF from = 1 THEN Max({1, new}) ELSE new
     /\ r.lost = Cardinality(MissingIn(l, from, to))
     /\ r.expected = NewestOf(l, to) - NewestOf(l, from) + 1

Spread(r, l, from, to) ==
  r.min = Min(Latencies(l, from, to)) /\ r.max = Max(Latencies(l, from, to))

LEMMA ReportFits ==
  ASSUME NEW l \in Seq(Entry), NEW from \in 1..Len(l), NEW a \in Record,
         Masked(a, l, from), CountsNew(a, l, from), NEW time \in Int
  PROVE  Fits(Report(a, time), l, from, Len(l))
<1> DEFINE r == Report(a, time)
           n == Len(l)
           nf == NewestOf(l, from)
           nt == NewestOf(l, n)
           new == Cardinality(NewIn(l, from, n))
           lost == Cardinality(MissingIn(l, from, n))
<1>1. n \in Nat /\ n > 0 /\ n \in 1..n /\ n \in from..n
  BY LenProperties
<1>2. nf \in Number /\ nt \in Number /\ nf \in Int /\ nt \in Int /\ nf <= nt
  BY <1>1, NewestIs, NewestGrows, EntryIs
<1>3. lost \in Nat /\ new \in Nat /\ lost + new = nt - nf
  BY <1>1, NewAndMissing
<1>4. LastSet(a.mask) = SeqNum(nt) /\ a.seqStart = SeqNum(nf)
  BY LastIs DEF Masked
<1>5. SeqDelta(a) = nt - nf
  <2>1. nt >= nf
    BY <1>2
  <2> QED
    BY <1>2, <1>4, <2>1, Apart DEF SeqDelta
<1>6. a.count = 1 + new /\ a.bytes = IF from = 1 /\ new = 0 THEN 1 ELSE new
  BY DEF CountsNew
<1>7. /\ r.count = IF a.count = 1 THEN 1 ELSE a.count - 1
      /\ r.bytes = a.bytes
      /\ r.lost = IF a.count = 1 \/ SeqDelta(a) <= 1 THEN 0 ELSE SeqDelta(a) + 1 - a.count
      /\ r.expected = SeqDelta(a) + 1
  BY DEF Report
<1>8. Max({1, new}) = IF 1 >= new THEN 1 ELSE new
  <2>1. new \in Int /\ 1 \in Int
    BY <1>3
  <2> HIDE DEF new
  <2> QED
    BY <2>1, LeastOfTwo
\* Without a new message the newest is not newer.
<1>9. new = 0 => nt = nf
  <2>1. SUFFICES ASSUME NewIn(l, from, n) = {}, nt # nf PROVE FALSE
    <3>1. IsFiniteSet(NewIn(l, from, n))
      BY <1>1, NewFinite, LenProperties
    <3> QED
      BY <3>1, FS_EmptySet
  <2> DEFINE I == {i \in 1..n : l[i].number = nt}
  <2>2. I # {} /\ I \subseteq Nat
    BY <1>1, NewestIs
  <2>3. PICK i \in I : \A k \in I : i <= k
    BY <2>2, LeastOf
  <2>4. ASSUME NEW j \in 1..(i - 1) PROVE l[j].number # nt
    <3>1. j \in 1..n /\ ~(i <= j)
      BY <1>1, <2>3
    <3> QED
      BY <2>3, <3>1
  <2>5. ~(i <= from)
    <3>1. i <= from => i \in 1..from
      BY <1>1, <2>3
    <3>2. \A j \in 1..from : l[j].number <= nf
      BY NewestIs
    <3> QED
      BY <1>2, <2>1, <2>3, <3>1, <3>2
  <2>6. i \in (from + 1)..n
    BY <1>1, <2>3, <2>5
  <2>7. nt > nf
    BY <1>2, <2>1
  <2>8. i \in NewIn(l, from, n)
    BY <2>3, <2>4, <2>6, <2>7 DEF NewIn
  <2> QED
    BY <2>1, <2>8
\* The newest has arrived.
<1>10. nt = nf + 1 => new = 1
  <2> HIDE DEF nt, nf, new, lost
  <2>1. SUFFICES ASSUME nt = nf + 1 PROVE lost = 0
    BY <1>2, <1>3
  <2> USE DEF nt, nf, lost
  <2>2. \A i \in nf..nt : i = nf \/ i = nt
    BY <1>2, <2>1
  <2>3. \E i \in 1..n : l[i].number = nt
    BY <1>1, NewestIs
  <2>4. \E i \in 1..n : l[i].number = nf
    <3>1. PICK i \in 1..from : l[i].number = nf
      BY NewestIs
    <3>2. i \in 1..n
      BY <1>1
    <3> QED
      BY <3>1, <3>2
  <2>5. MissingIn(l, from, n) = {}
    BY <2>2, <2>3, <2>4 DEF MissingIn
  <2> QED
    BY <2>5, FS_EmptySet
<1> HIDE DEF r, n, nf, nt, new, lost
<1>11. r.count = Max({1, new})
  BY <1>3, <1>6, <1>7, <1>8
<1>12. r.bytes = IF from = 1 THEN Max({1, new}) ELSE new
  BY <1>3, <1>6, <1>7, <1>8
<1>13. r.lost = lost /\ r.expected = nt - nf + 1
  BY <1>2, <1>3, <1>5, <1>6, <1>7, <1>9, <1>10
<1> QED
  BY <1>11, <1>12, <1>13 DEF Fits, r, n, nf, nt, new, lost

LEMMA ReportSpread ==
  ASSUME NEW l \in Seq(Entry), NEW from \in 1..Len(l), NEW a \in Record, Extremes(a, l, from),
         NEW time
  PROVE  Spread(Report(a, time), l, from, Len(l))
<1> DEFINE L == Latencies(l, from, Len(l))
<1>1. L \subseteq Int
  <2>1. \A i \in NewIn(l, from, Len(l)) \cup {from} : i \in 1..Len(l)
    BY LenProperties DEF NewIn
  <2>2. \A i \in 1..Len(l) : l[i] \in Entry
    BY LenProperties
  <2> QED
    BY <2>1, <2>2, EntryIs DEF Latencies
<1>2. a.min \in L /\ a.max \in L /\ \A x \in L : a.min <= x /\ x <= a.max
  BY DEF Extremes
<1> HIDE DEF L
<1>3. Min(L) = a.min /\ Max(L) = a.max
  BY <1>1, <1>2, MinIs, MaxIs
<1> QED
  BY <1>3 DEF Spread, Report, L
-------------------------------------------------------------------------------
(* Windows one after another: entry b[k] of l opened the k-th.             *)

Bounded(l, b) ==
  /\ b \in Seq(Int) /\ Len(b) >= 1 /\ b[1] = 1
  /\ \A k \in 1..Len(b) : b[k] \in 1..Len(l)
  /\ \A k \in 1..(Len(b) - 1) : b[k] < b[k + 1]

OpenedByNew(l, b, k) == b[k] = 1 \/ b[k] \in NewIn(l, b[k - 1], b[k])

WindowInv(a, l, b) ==
  /\ a \in Record
  /\ Masked(a, l, b[Len(b)])
  /\ ~a.recounted => /\ CountsNew(a, l, b[Len(b)])
                     /\ OpenedByNew(l, b, Len(b)) => Extremes(a, l, b[Len(b)])

ReportInv(r, l, b) ==
  /\ Len(b) >= 2
  /\ Fits(r, l, b[Len(b) - 1], b[Len(b)])
  /\ OpenedByNew(l, b, Len(b) - 1) => Spread(r, l, b[Len(b) - 1], b[Len(b)])

LEMMA OpenerIs ==
  ASSUME NEW l \in Seq(Entry), NEW b, Bounded(l, b)
  PROVE  /\ Len(b) \in Nat /\ Len(l) \in Nat /\ b[Len(b)] \in 1..Len(l) /\ Len(l) > 0
         /\ Len(b) >= 2 => b[Len(b) - 1] \in 1..Len(l) /\ b[Len(b) - 1] < b[Len(b)]
<1>1. Len(b) \in Nat /\ Len(l) \in Nat
  BY LenProperties DEF Bounded
<1>2. b[Len(b)] \in 1..Len(l) /\ Len(l) > 0
  BY <1>1 DEF Bounded
<1>3. ASSUME Len(b) >= 2 PROVE b[Len(b) - 1] \in 1..Len(l) /\ b[Len(b) - 1] < b[Len(b)]
  <2> DEFINE k == Len(b) - 1
  <2>1. k \in 1..Len(b) /\ k \in 1..(Len(b) - 1) /\ k + 1 = Len(b)
    BY <1>1, <1>3
  <2> HIDE DEF k
  <2>2. b[k] \in 1..Len(l) /\ b[k] < b[k + 1]
    BY <2>1 DEF Bounded
  <2> QED
    BY <2>1, <2>2 DEF k
<1> QED
  BY <1>1, <1>2, <1>3

LEMMA SameOpened ==
  ASSUME NEW l \in Seq(Entry), NEW e \in Entry, NEW b, Bounded(l, b), NEW k \in 1..Len(b)
  PROVE  OpenedByNew(Append(l, e), b, k) <=> OpenedByNew(l, b, k)
<1> DEFINE m == Append(l, e)
<1>1. Len(b) \in Nat /\ Len(l) \in Nat /\ \A j \in 1..Len(l) : m[j] = l[j]
  BY LongerBy, OpenerIs
<1>2. CASE k = 1
  BY <1>2 DEF OpenedByNew, Bounded
<1>3. CASE k # 1
  <2> DEFINE i == k - 1
  <2>1. i \in 1..(Len(b) - 1) /\ i \in 1..Len(b) /\ i + 1 = k
    BY <1>1, <1>3
  <2> HIDE DEF i, m
  <2>2. b[i] \in 1..Len(l) /\ b[k] \in 1..Len(l) /\ b[i] < b[k]
    BY <2>1 DEF Bounded
  <2>3. b[i] \in Nat /\ b[k] \in Nat /\ b[i] <= b[k] /\ \A j \in 1..b[k] : m[j] = l[j]
    BY <1>1, <2>2
  <2>4. NewIn(m, b[i], b[k]) = NewIn(l, b[i], b[k])
    BY <2>3, SameNew
  <2> QED
    BY <2>4 DEF OpenedByNew, i, m
<1> QED
  BY <1>2, <1>3

\* An arrival in a window that stays open or is about to close.
WindowGrows(a, c, l, m, b, e) ==
  /\ c \in Record /\ c.end = a.end
  /\ Masked(c, m, b[Len(b)])
  /\ ~c.recounted =>
       /\ ~a.recounted
       /\ CountsNew(c, m, b[Len(b)])
       /\ OpenedByNew(l, b, Len(b)) => Extremes(c, m, b[Len(b)])
       /\ New(a, SeqNum(e.number)) <=> Len(m) \in NewIn(m, b[Len(b)], Len(m))

LEMMA ArrivalGrows ==
  ASSUME Punctual, NEW l \in Seq(Entry), NEW b, Bounded(l, b), NEW a, WindowInv(a, l, b),
         NEW e \in Entry, e.number >= NewestOf(l, Len(l)) - MaxLag
  PROVE  WindowGrows(a, Arrival(a, SeqNum(e.number), e.latency), l, Append(l, e), b, e)
<1> DEFINE seq == SeqNum(e.number)
           c == Arrival(a, seq, e.latency)
           m == Append(l, e)
           from == b[Len(b)]
           n == Len(l)
<1>1. /\ n \in Nat /\ from \in 1..n /\ Len(m) = n + 1
      /\ seq \in Int /\ e.latency \in Int
  BY OpenerIs, LongerBy, EntryIs, SeqNumIs
<1>2. a \in Record /\ Masked(a, l, from)
  BY DEF WindowInv
<1>3. Masked(c, m, from)
  BY <1>1, <1>2, ArrivalMasked
<1>4. /\ c \in Record /\ SameWindow(a, c)
      /\ Duplicate(a, seq) => SameCounts(a, c)
      /\ ~Duplicate(a, seq) /\ Precedes(a, seq) => SameCounts(a, c)
      /\ New(a, seq) => CountsOneMore(a, c, seq, e.latency)
  BY <1>1, <1>2, ArrivalIs
<1> HIDE DEF c
<1>5. New(a, seq) \/ SameCounts(a, c)
  BY <1>4 DEF New
<1>6. ASSUME ~c.recounted
      PROVE  /\ ~a.recounted /\ CountsNew(c, m, from)
             /\ OpenedByNew(l, b, Len(b)) => Extremes(c, m, from)
             /\ New(a, seq) <=> n + 1 \in NewIn(m, from, n + 1)
  <2>1. ~a.recounted /\ (New(a, seq) => seq \notin a.forgotten)
    BY <1>4, <1>5, <1>6 DEF CountsOneMore, SameCounts
  <2>2. New(a, seq) <=> n + 1 \in NewIn(m, from, n + 1)
    BY <1>1, <1>2, <2>1, NewKnown
  <2>3. IF n + 1 \in NewIn(m, from, n + 1) THEN CountsOneMore(a, c, seq, e.latency)
        ELSE SameCounts(a, c)
    BY <1>4, <1>5, <2>2
  <2>4. CountsNew(a, l, from) /\ (OpenedByNew(l, b, Len(b)) => Extremes(a, l, from))
    BY <2>1 DEF WindowInv
  <2> HIDE DEF seq, from
  <2>5. CountsNew(c, m, from)
    BY <1>1, <2>3, <2>4, StaysCounted
  <2>6. OpenedByNew(l, b, Len(b)) => Extremes(c, m, from)
    BY <1>1, <1>2, <2>3, <2>4, StaysExtreme
  <2> QED
    BY <2>1, <2>2, <2>5, <2>6
<1>7. WindowGrows(a, c, l, m, b, e)
  BY <1>1, <1>3, <1>4, <1>6 DEF WindowGrows, SameWindow
<1> QED
  BY <1>7 DEF c

LEMMA WindowStays ==
  ASSUME NEW l \in Seq(Entry), NEW b, Bounded(l, b), NEW e \in Entry, NEW a, NEW c,
         WindowGrows(a, c, l, Append(l, e), b, e)
  PROVE  Bounded(Append(l, e), b) /\ WindowInv(c, Append(l, e), b)
<1> DEFINE m == Append(l, e)
<1>1. Len(l) \in Nat /\ Len(b) \in Nat /\ Len(m) = Len(l) + 1 /\ Len(b) \in 1..Len(b)
  BY OpenerIs, LongerBy DEF Bounded
<1>2. \A k \in 1..Len(l) : k \in 1..Len(m)
  BY <1>1
<1>3. Bounded(m, b)
  BY <1>2 DEF Bounded
<1>4. OpenedByNew(m, b, Len(b)) <=> OpenedByNew(l, b, Len(b))
  BY <1>1, SameOpened
<1> QED
  BY <1>3, <1>4 DEF WindowInv, WindowGrows

LEMMA ReportStays ==
  ASSUME NEW l \in Seq(Entry), NEW b, Bounded(l, b), NEW e \in Entry, NEW r, ReportInv(r, l, b)
  PROVE  ReportInv(r, Append(l, e), b)
<1> DEFINE m == Append(l, e)
           from == b[Len(b) - 1]
           to == b[Len(b)]
<1>1. /\ Len(l) \in Nat /\ Len(b) \in Nat /\ Len(b) >= 2
      /\ from \in 1..Len(l) /\ to \in 1..Len(l) /\ from < to
      /\ \A j \in 1..Len(l) : m[j] = l[j]
  BY OpenerIs, LongerBy DEF ReportInv
<1>2. Len(b) - 1 \in 1..Len(b)
  BY <1>1
<1>3. OpenedByNew(m, b, Len(b) - 1) <=> OpenedByNew(l, b, Len(b) - 1)
  BY <1>2, SameOpened
<1> HIDE DEF m, from, to
<1>4. /\ from \in Nat /\ to \in Nat /\ from <= to /\ from \in Int /\ to \in Int
      /\ \A j \in 1..to : m[j] = l[j]
      /\ \A j \in 1..from : m[j] = l[j]
      /\ \A i \in (from + 1)..to : m[i] = l[i]
      /\ m[from] = l[from]
  BY <1>1
<1>5. NewIn(m, from, to) = NewIn(l, from, to) /\ MissingIn(m, from, to) = MissingIn(l, from, to)
  BY <1>4, SameNew
<1>6. NewestOf(m, from) = NewestOf(l, from) /\ NewestOf(m, to) = NewestOf(l, to)
  BY <1>4, SameNewest
<1>7. Latencies(m, from, to) = Latencies(l, from, to)
  <2>1. \A i \in NewIn(l, from, to) \cup {from} : m[i] = l[i]
    BY <1>4 DEF NewIn
  <2> QED
    BY <1>5, <2>1 DEF Latencies
<1>8. Fits(r, l, from, to) => Fits(r, m, from, to)
  BY <1>5, <1>6 DEF Fits
<1>9. Spread(r, l, from, to) => Spread(r, m, from, to)
  BY <1>7 DEF Spread
<1> QED
  BY <1>3, <1>8, <1>9 DEF ReportInv, m, from, to

LEMMA WindowCloses ==
  ASSUME NEW l \in Seq(Entry), NEW b, Bounded(l, b), NEW e \in Entry, NEW a, NEW c,
         WindowGrows(a, c, l, Append(l, e), b, e), NEW time \in Int
  PROVE  LET m == Append(l, e)
             d == Append(b, Len(l) + 1)
             w == NextWindow(c, time, IF New(a, SeqNum(e.number)) THEN e.latency ELSE 0)
         IN /\ Bounded(m, d) /\ WindowInv(w, m, d) /\ Len(d) >= 2
            /\ ~w.recounted => ReportInv(Report(c, time), m, d)
<1> DEFINE m == Append(l, e)
           n == Len(l)
           d == Append(b, n + 1)
           from == b[Len(b)]
           z == IF New(a, SeqNum(e.number)) THEN e.latency ELSE 0
           w == NextWindow(c, time, z)
           k == Len(b)
<1>1. /\ n \in Nat /\ n > 0 /\ k \in Nat /\ k >= 1 /\ from \in 1..n
      /\ m \in Seq(Entry) /\ Len(m) = n + 1 /\ m[n + 1] = e /\ e.latency \in Int /\ z \in Int
  BY OpenerIs, LongerBy, EntryIs DEF Bounded
<1>2. /\ d \in Seq(Int) /\ Len(d) = k + 1 /\ d[k + 1] = n + 1 /\ \A j \in 1..k : d[j] = b[j]
  <2>1. b \in Seq(Int) /\ n + 1 \in Int
    BY <1>1 DEF Bounded
  <2> QED
    BY <2>1, LenProperties, AppendProperties
<1>3. d[k] = from /\ d[1] = 1
  BY <1>1, <1>2 DEF Bounded
<1>4. /\ c \in Record /\ Masked(c, m, from)
      /\ ~c.recounted =>
           /\ CountsNew(c, m, from)
           /\ OpenedByNew(l, b, k) => Extremes(c, m, from)
           /\ New(a, SeqNum(e.number)) <=> n + 1 \in NewIn(m, from, n + 1)
  BY <1>1 DEF WindowGrows
<1>5. /\ b \in Seq(Int)
      /\ \A j \in 1..k : b[j] \in 1..n
      /\ \A j \in 1..(k - 1) : b[j] < b[j + 1]
  BY DEF Bounded
<1>6. Bounded(m, d)
  <2> HIDE DEF m, d, n, k, from
  <2>1. ASSUME NEW j \in 1..(k + 1) PROVE d[j] \in 1..(n + 1)
    <3>1. CASE j = k + 1
      BY <1>1, <1>2, <3>1
    <3>2. CASE j # k + 1
      <4>1. j \in 1..k
        BY <1>1, <3>2
      <4> QED
        BY <1>1, <1>2, <1>5, <4>1
    <3> QED
      BY <3>1, <3>2
  <2>2. ASSUME NEW j \in 1..k PROVE d[j] < d[j + 1]
    <3>1. CASE j = k
      <4>1. d[j] \in 1..n
        BY <1>1, <1>2, <1>5, <3>1
      <4> QED
        BY <1>1, <1>2, <3>1, <4>1
    <3>2. CASE j # k
      <4>1. j \in 1..(k - 1) /\ j + 1 \in 1..k
        BY <1>1, <3>2
      <4> QED
        BY <1>2, <1>5, <4>1
    <3> QED
      BY <3>1, <3>2
  <2>3. (k + 1) - 1 = k /\ k + 1 >= 1
    BY <1>1
  <2> QED
    BY <1>1, <1>2, <1>3, <2>1, <2>2, <2>3 DEF Bounded
<1> DEFINE t == Len(m)
<1>7. from \in 1..t /\ t > 1 /\ t = n + 1
  BY <1>1
<1> HIDE DEF z, m
<1>8. /\ w \in Record /\ w.recounted = c.recounted
      /\ Masked(w, m, t) /\ CountsNew(w, m, t)
      /\ z = m[t].latency => Extremes(w, m, t)
  BY <1>1, <1>4, <1>7, WindowOpens
<1> HIDE DEF w, t, from, d, n, k
<1>9. d[Len(d)] = t /\ Len(d) - 1 = k /\ d[Len(d) - 1] = from /\ Len(d) >= 2
  BY <1>1, <1>2, <1>3, <1>7
<1>10. ASSUME ~w.recounted, OpenedByNew(m, d, Len(d)) PROVE Extremes(w, m, t)
  <2>1. t \in NewIn(m, from, t)
    BY <1>7, <1>9, <1>10 DEF OpenedByNew
  <2>2. New(a, SeqNum(e.number))
    BY <1>4, <1>7, <1>8, <1>10, <2>1
  <2>3. z = m[t].latency
    BY <1>1, <1>7, <2>2 DEF z
  <2> QED
    BY <1>8, <2>3
<1>11. WindowInv(w, m, d)
  BY <1>8, <1>9, <1>10 DEF WindowInv
<1>12. ASSUME ~w.recounted PROVE ReportInv(Report(c, time), m, d)
  <2>1. CountsNew(c, m, from) /\ (OpenedByNew(l, b, k) => Extremes(c, m, from))
    BY <1>4, <1>8, <1>12
  <2>2. Fits(Report(c, time), m, from, t)
    BY <1>1, <1>4, <1>7, <2>1, ReportFits DEF t
  <2>3. Extremes(c, m, from) => Spread(Report(c, time), m, from, t)
    BY <1>1, <1>4, <1>7, ReportSpread DEF t
  <2>4. OpenedByNew(m, d, k) => OpenedByNew(l, b, k)
    <3>1. k \in 1..Len(b)
      BY <1>1 DEF k
    <3>2. OpenedByNew(m, b, k) <=> OpenedByNew(l, b, k)
      BY <3>1, SameOpened DEF m
    <3>3. d[k] = b[k] /\ (k # 1 => d[k - 1] = b[k - 1])
      BY <1>1, <1>2
    <3>4. k = 1 => OpenedByNew(l, b, k)
      BY DEF OpenedByNew, Bounded
    <3> QED
      BY <3>2, <3>3, <3>4 DEF OpenedByNew
  <2> QED
    BY <1>9, <2>1, <2>2, <2>3, <2>4 DEF ReportInv
<1> QED
  BY <1>6, <1>9, <1>11, <1>12 DEF m, d, w, z, n
-------------------------------------------------------------------------------
(* The steps.                                                              *)

Inv ==
  /\ now \in Int /\ log \in Seq(Entry)
  /\ log = << >> => analytic = Unopened /\ report = NoReport /\ bounds = << >>
  /\ log # << >> =>
       /\ Bounded(log, bounds)
       /\ WindowInv(analytic, log, bounds)
       /\ report # NoReport => Len(bounds) >= 2
       /\ report # NoReport /\ ~analytic.recounted => ReportInv(report, log, bounds)

LEMMA InvInit == Init => Inv
BY EmptySeq DEF Init, Inv

LEMMA InvNext ==
  ASSUME Punctual, Inv, [Next]_vars
  PROVE  Inv'
<1>1. CASE UNCHANGED vars
  BY <1>1 DEF vars, Inv
<1>2. CASE Next
  <2>1. PICK wait \in Waits, n \in 0..(Messages - 1) :
          /\ log # << >> => n >= Newest(Len(log)) - MaxLag
          /\ now' = now + wait
          /\ log' = Append(log, [number |-> n, latency |-> now + wait - Skew - n])
          /\ Update(n, now + wait)
    BY <1>2 DEF Next, Receive
  <2> DEFINE time == now + wait
             y == time - Skew - n
             e == [number |-> n, latency |-> y]
             seq == SeqNum(n)
             c == Arrival(analytic, seq, y)
  <2>2. time \in Int /\ Skew \in Int /\ n \in Int /\ n \in Number
    BY AnalyticAssumption DEF Inv, Number
  <2>3. e \in Entry /\ e.number = n /\ e.latency = y
    BY <2>2 DEF Entry
  <2>4. /\ log' = Append(log, e) /\ now' = time
        /\ IF analytic = Unopened
           THEN /\ analytic' = Opened(seq, time, y)
                /\ bounds' = <<1>>
                /\ UNCHANGED report
           ELSE IF time < analytic.end
           THEN /\ analytic' = c
                /\ UNCHANGED <<report, bounds>>
           ELSE /\ report' = Report(c, time)
                /\ analytic' = NextWindow(c, time, IF New(analytic, seq) THEN y ELSE 0)
                /\ bounds' = Append(bounds, Len(log) + 1)
    <3>1. log' = Append(log, e) /\ now' = time
      <4>1. now' = now + wait
        BY <2>1
      <4>2. log' = Append(log, [number |-> n, latency |-> now + wait - Skew - n])
        BY <2>1
      <4>3. e = [number |-> n, latency |-> now + wait - Skew - n]
        <5>1. wait \in Int /\ now \in Int /\ n \in Int /\ Skew \in Int
          BY <2>2, AnalyticAssumption DEF Inv
        <5>2. now + wait - Skew - n = y
          BY <5>1 DEF time
        <5> QED
          BY <5>2
      <4> HIDE DEF e
      <4> QED
        BY <4>1, <4>2, <4>3
    <3>2. Update(n, time)
      BY <2>1
    <3> HIDE DEF time
    <3>3. CASE analytic = Unopened
      <4>1. analytic' = Opened(seq, time, y) /\ bounds' = <<1>> /\ UNCHANGED report
        BY <3>2, <3>3 DEF Update
      <4> QED
        BY <3>1, <3>3, <4>1
    <3>4. CASE analytic # Unopened /\ time < analytic.end
      <4>1. analytic' = c /\ UNCHANGED <<report, bounds>>
        BY <3>2, <3>4 DEF Update
      <4> QED
        BY <3>1, <3>4, <4>1
    <3>5. CASE analytic # Unopened /\ ~(time < analytic.end)
      <4>1. /\ report' = Report(c, time)
            /\ analytic' = NextWindow(c, time, IF New(analytic, seq) THEN y ELSE 0)
            /\ bounds' = Append(bounds, Len(log) + 1)
        BY <3>2, <3>5 DEF Update
      <4> HIDE DEF c, y, seq
      <4> QED
        BY <3>1, <3>5, <4>1
    <3> QED
      BY <3>3, <3>4, <3>5
  <2>5. seq = SeqNum(e.number)
    BY <2>3
  <2> HIDE DEF time, e, c, seq, y
  <2>6. log' \in Seq(Entry) /\ Len(log') = Len(log) + 1 /\ Len(log) \in Nat /\ log' # << >>
    <3>1. log' \in Seq(Entry) /\ Len(log') = Len(log) + 1 /\ Len(log) \in Nat
      BY <2>3, <2>4, LongerBy DEF Inv
    <3>2. Len(log') # 0
      BY <3>1
    <3> QED
      BY <3>1, <3>2, EmptySeq
  <2>7. CASE log = << >>
    <3>1. analytic = Unopened /\ report = NoReport
      BY <2>7 DEF Inv
    <3>2. analytic' = Opened(seq, time, e.latency) /\ bounds' = <<1>> /\ report' = NoReport
      BY <2>3, <2>4, <3>1
    <3>3. /\ log' = Append(<< >>, e) /\ Len(log') = 1
          /\ analytic' \in Record /\ Masked(analytic', log', 1)
          /\ CountsNew(analytic', log', 1) /\ Extremes(analytic', log', 1)
      BY <2>2, <2>3, <2>4, <2>5, <2>7, <3>2, FirstWindow
    <3>4. /\ bounds' \in Seq(Int) /\ Len(bounds') = 1 /\ bounds'[1] = 1
      BY <3>2
    <3>5. Bounded(log', bounds')
      <4>1. 1..Len(bounds') = {1} /\ 1..(Len(bounds') - 1) = {} /\ 1 \in 1..Len(log')
        BY <3>3, <3>4
      <4> QED
        BY <3>4, <4>1 DEF Bounded
    <3>6. WindowInv(analytic', log', bounds')
      BY <3>3, <3>4 DEF WindowInv
    <3> QED
      BY <2>2, <2>4, <2>6, <3>2, <3>5, <3>6 DEF Inv
  <2>8. CASE log # << >>
    <3>1. /\ log \in Seq(Entry) /\ Bounded(log, bounds) /\ WindowInv(analytic, log, bounds)
          /\ report # NoReport => Len(bounds) >= 2
          /\ report # NoReport /\ ~analytic.recounted => ReportInv(report, log, bounds)
      BY <2>8 DEF Inv
    <3>2. analytic # Unopened
      <4>1. analytic \in Record
        BY <3>1 DEF WindowInv
      <4>2. "end" \in DOMAIN analytic /\ "end" \notin DOMAIN Unopened
        BY <4>1 DEF Record, Unopened
      <4> QED
        BY <4>2
    <3>3. e.number >= NewestOf(log, Len(log)) - MaxLag
      BY <2>1, <2>3, <2>8 DEF Newest, NewestOf
    <3>4. WindowGrows(analytic, c, log, log', bounds, e)
      BY <2>3, <2>4, <2>5, <3>1, <3>3, ArrivalGrows DEF c
    <3>5. CASE time < analytic.end
      <4>1. analytic' = c /\ report' = report /\ bounds' = bounds
        BY <2>4, <3>2, <3>5
      <4>2. Bounded(log', bounds) /\ WindowInv(c, log', bounds)
        BY <2>3, <2>4, <3>1, <3>4, WindowStays
      <4>3. ~c.recounted => ~analytic.recounted
        BY <3>4 DEF WindowGrows
      <4>4. report # NoReport /\ ~c.recounted => ReportInv(report, log', bounds)
        BY <2>3, <2>4, <3>1, <4>3, ReportStays
      <4> QED
        BY <2>2, <2>4, <2>6, <3>1, <4>1, <4>2, <4>4 DEF Inv
    <3>6. CASE ~(time < analytic.end)
      <4> DEFINE w == NextWindow(c, time, IF New(analytic, seq) THEN e.latency ELSE 0)
                 d == Append(bounds, Len(log) + 1)
      <4>1. report' = Report(c, time) /\ analytic' = w /\ bounds' = d
        BY <2>3, <2>4, <3>2, <3>6
      <4>2. /\ Bounded(log', d) /\ WindowInv(w, log', d) /\ Len(d) >= 2
            /\ ~w.recounted => ReportInv(Report(c, time), log', d)
        BY <2>2, <2>3, <2>4, <2>5, <3>1, <3>4, WindowCloses
      <4> HIDE DEF w, d
      <4> QED
        BY <2>2, <2>4, <2>6, <4>1, <4>2 DEF Inv
    <3> QED
      BY <3>5, <3>6
  <2> QED
    BY <2>7, <2>8
<1> QED
  BY <1>1, <1>2

LEMMA InvExact ==
  ASSUME Inv
  PROVE  ReportsExact
<1> SUFFICES ASSUME Reliable PROVE ReportsExact
  BY DEF ReportsExact, CountsExact, LossExact, LatenciesExact
<1>1. report # NoReport /\ ~analytic.recounted
  BY DEF Reliable
<1>2. /\ log \in Seq(Entry) /\ Bounded(log, bounds) /\ Len(bounds) >= 2
      /\ ReportInv(report, log, bounds)
  <2>1. log # << >>
    BY <1>1 DEF Inv
  <2> QED
    BY <1>1, <2>1 DEF Inv
<1>3. /\ From = bounds[Len(bounds) - 1] /\ To = bounds[Len(bounds)]
      /\ Newest(From) = NewestOf(log, From) /\ Newest(To) = NewestOf(log, To)
      /\ NewArrivals(From, To) = NewIn(log, From, To)
      /\ Missing = MissingIn(log, From, To)
  BY DEF From, To, Newest, NewestOf, NewArrivals, FirstCopy, NewIn, Missing, MissingIn
<1>4. /\ Fits(report, log, From, To)
      /\ OpenedByNew(log, bounds, Len(bounds) - 1) => Spread(report, log, From, To)
  BY <1>2, <1>3 DEF ReportInv
<1>5. OpenedNew => OpenedByNew(log, bounds, Len(bounds) - 1)
  <2>1. (Len(bounds) - 1) - 1 = Len(bounds) - 2
    BY <1>2, OpenerIs
  <2>2. NewArrivals(bounds[Len(bounds) - 2], From) = NewIn(log, bounds[Len(bounds) - 2], From)
    BY DEF Newest, NewestOf, NewArrivals, FirstCopy, NewIn
  <2> QED
    BY <1>3, <2>1, <2>2 DEF OpenedNew, OpenedByNew
<1>6. CountsExact
  BY <1>3, <1>4 DEF CountsExact, Fits
<1>7. LossExact
  BY <1>3, <1>4 DEF LossExact, Fits
<1>8. LatenciesExact
  BY <1>3, <1>4, <1>5 DEF LatenciesExact, Spread, Latencies
<1> QED
  BY <1>6, <1>7, <1>8 DEF ReportsExact

\* MgenAnalytic::Update: while no message is behind the newest by more than the mask
\* spans and no number is taken for new twice, a report counts the messages that were
\* new in its window, finds lost exactly those that have not arrived, and gives the
\* least and the greatest latency, across the wrap of the sequence numbers and
\* whatever is lost, doubled or late.
THEOREM ReportedExactly ==
  ASSUME Punctual
  PROVE  MCSpec => []ReportsExact
<1> DEFINE all == <<part, vars, reporter, others>>
<1>1. MCInit => Inv
  BY InvInit DEF MCInit
<1>2. Inv /\ [MCNext]_all => Inv'
  <2> SUFFICES ASSUME Inv, [MCNext]_all PROVE Inv'
    OBVIOUS
  <2>1. [Next]_vars
    BY DEF MCNext, Windows, Reporting
  <2> QED
    BY <2>1, InvNext
<1>3. Inv => ReportsExact
  BY InvExact
<1> QED
  BY <1>1, <1>2, <1>3, PTL DEF MCSpec
-------------------------------------------------------------------------------
(* The queue of reports.                                                   *)

\* InsertAt puts e at position p.
LEMMA InsertAtProperties ==
  ASSUME NEW S, NEW l \in Seq(S), NEW p \in 1..(Len(l) + 1), NEW e \in S
  PROVE  /\ Reports!InsertAt(l, p, e) \in Seq(S)
         /\ Len(Reports!InsertAt(l, p, e)) = Len(l) + 1
         /\ \A i \in 1..(Len(l) + 1) :
              Reports!InsertAt(l, p, e)[i] = IF i < p THEN l[i] ELSE IF i = p THEN e ELSE l[i - 1]
<1> DEFINE a == SubSeq(l, 1, p - 1)
           b == SubSeq(l, p, Len(l))
           n == Len(l)
<1>1. n \in Nat /\ p \in Int /\ p >= 1 /\ p <= n + 1 /\ \A i \in 1..n : l[i] \in S
  BY LenProperties
<1>2. a \in Seq(S) /\ Len(a) = p - 1 /\ \A i \in 1..(p - 1) : a[i] = l[i]
  <2>1. \A i \in 1..(p - 1) : l[i] \in S
    BY <1>1
  <2>2. /\ a \in Seq(S) /\ Len(a) = (IF 1 <= p - 1 THEN (p - 1) - 1 + 1 ELSE 0)
        /\ \A i \in 1..((p - 1) - 1 + 1) : a[i] = l[1 + i - 1]
    BY <1>1, <2>1, SubSeqProperties
  <2> HIDE DEF a
  <2> QED
    BY <1>1, <2>2
<1>3. /\ b \in Seq(S) /\ Len(b) = n - p + 1
      /\ \A i \in 1..(n - p + 1) : b[i] = l[p + i - 1]
  <2>1. \A i \in p..n : l[i] \in S
    BY <1>1
  <2>2. /\ b \in Seq(S) /\ Len(b) = (IF p <= n THEN n - p + 1 ELSE 0)
        /\ \A i \in 1..(n - p + 1) : b[i] = l[p + i - 1]
    BY <1>1, <2>1, SubSeqProperties
  <2> HIDE DEF b
  <2> QED
    BY <1>1, <2>2
<1> DEFINE s == <<e>>
<1>4. s \in Seq(S) /\ Len(s) = 1 /\ s[1] = e
  OBVIOUS
<1>5. Reports!InsertAt(l, p, e) = a \o s \o b
  BY DEF Reports!InsertAt
<1> HIDE DEF a, b, s
<1> DEFINE c == a \o s
<1>6. /\ c \in Seq(S) /\ Len(c) = (p - 1) + 1
      /\ \A i \in 1..((p - 1) + 1) : c[i] = IF i <= p - 1 THEN a[i] ELSE s[i - (p - 1)]
  <2>1. /\ c \in Seq(S) /\ Len(c) = Len(a) + Len(s)
        /\ \A i \in 1..(Len(a) + Len(s)) : c[i] = IF i <= Len(a) THEN a[i] ELSE s[i - Len(a)]
    BY <1>2, <1>4, ConcatProperties
  <2>2. Len(a) + Len(s) = (p - 1) + 1
    BY <1>1, <1>2, <1>4
  <2> HIDE DEF c
  <2> QED
    BY <1>2, <2>1, <2>2
<1> HIDE DEF c
<1>7. /\ c \o b \in Seq(S) /\ Len(c \o b) = Len(c) + Len(b)
      /\ \A i \in 1..(Len(c) + Len(b)) : (c \o b)[i] = IF i <= Len(c) THEN c[i] ELSE b[i - Len(c)]
  BY <1>3, <1>6, ConcatProperties
<1> DEFINE w == c \o b
<1>8. w = Reports!InsertAt(l, p, e)
  BY <1>5 DEF c
<1> HIDE DEF w
<1>9. w \in Seq(S) /\ Len(w) = n + 1
  BY <1>1, <1>3, <1>6, <1>7 DEF w
<1>10. \A i \in 1..(n + 1) : w[i] = IF i <= p THEN c[i] ELSE b[i - p]
  <2>1. Len(c) = p /\ Len(c) + Len(b) = n + 1
    BY <1>1, <1>3, <1>6
  <2> QED
    BY <1>7, <2>1 DEF w
<1>11. ASSUME NEW i \in 1..(n + 1)
       PROVE  w[i] = IF i < p THEN l[i] ELSE IF i = p THEN e ELSE l[i - 1]
  <2>1. CASE i < p
    <3>1. i \in 1..(p - 1) /\ i <= p /\ i \in 1..((p - 1) + 1)
      BY <1>1, <2>1
    <3> QED
      BY <1>2, <1>6, <1>10, <2>1, <3>1
  <2>2. CASE i = p
    <3>1. i <= p /\ i \in 1..((p - 1) + 1) /\ ~(i <= p - 1) /\ i - (p - 1) = 1
      BY <1>1, <2>2
    <3> QED
      BY <1>4, <1>6, <1>10, <2>2, <3>1
  <2>3. CASE i > p
    <3>1. ~(i <= p) /\ i - p \in 1..(n - p + 1) /\ p + (i - p) - 1 = i - 1
      BY <1>1, <2>3
    <3> QED
      BY <1>3, <1>10, <2>3, <3>1
  <2> QED
    BY <1>1, <2>1, <2>2, <2>3
<1> HIDE DEF n
<1> QED
  BY <1>8, <1>9, <1>11 DEF n

\* RemoveAt closes the gap at position p.
LEMMA RemoveAtProperties ==
  ASSUME NEW S, NEW l \in Seq(S), NEW p \in 1..Len(l)
  PROVE  /\ Reports!RemoveAt(l, p) \in Seq(S)
         /\ Len(Reports!RemoveAt(l, p)) = Len(l) - 1
         /\ \A i \in 1..(Len(l) - 1) :
              Reports!RemoveAt(l, p)[i] = IF i < p THEN l[i] ELSE l[i + 1]
<1> DEFINE a == SubSeq(l, 1, p - 1)
           b == SubSeq(l, p + 1, Len(l))
           n == Len(l)
<1>1. n \in Nat /\ p \in Int /\ p >= 1 /\ p <= n /\ \A i \in 1..n : l[i] \in S
  BY LenProperties
<1>2. a \in Seq(S) /\ Len(a) = p - 1 /\ \A i \in 1..(p - 1) : a[i] = l[i]
  <2>1. \A i \in 1..(p - 1) : l[i] \in S
    BY <1>1
  <2>2. /\ a \in Seq(S) /\ Len(a) = (IF 1 <= p - 1 THEN (p - 1) - 1 + 1 ELSE 0)
        /\ \A i \in 1..((p - 1) - 1 + 1) : a[i] = l[1 + i - 1]
    BY <1>1, <2>1, SubSeqProperties
  <2> HIDE DEF a
  <2> QED
    BY <1>1, <2>2
<1>3. /\ b \in Seq(S) /\ Len(b) = n - p
      /\ \A i \in 1..(n - p) : b[i] = l[p + i]
  <2>1. \A i \in (p + 1)..n : l[i] \in S
    BY <1>1
  <2>2. /\ b \in Seq(S) /\ Len(b) = (IF p + 1 <= n THEN n - (p + 1) + 1 ELSE 0)
        /\ \A i \in 1..(n - (p + 1) + 1) : b[i] = l[(p + 1) + i - 1]
    BY <1>1, <2>1, SubSeqProperties
  <2> HIDE DEF b
  <2> QED
    BY <1>1, <2>2
<1>4. Reports!RemoveAt(l, p) = a \o b
  BY DEF Reports!RemoveAt
<1> HIDE DEF a, b
<1> DEFINE w == a \o b
<1>5. /\ w \in Seq(S) /\ Len(w) = Len(a) + Len(b)
      /\ \A i \in 1..(Len(a) + Len(b)) : w[i] = IF i <= Len(a) THEN a[i] ELSE b[i - Len(a)]
  BY <1>2, <1>3, ConcatProperties
<1> HIDE DEF w
<1>6. Len(w) = n - 1 /\ \A i \in 1..(n - 1) : w[i] = IF i <= p - 1 THEN a[i] ELSE b[i - (p - 1)]
  BY <1>1, <1>2, <1>3, <1>5
<1>7. ASSUME NEW i \in 1..(n - 1) PROVE w[i] = IF i < p THEN l[i] ELSE l[i + 1]
  <2>1. CASE i < p
    <3>1. i \in 1..(p - 1) /\ i <= p - 1
      BY <1>1, <2>1
    <3> QED
      BY <1>2, <1>6, <2>1, <3>1
  <2>2. CASE ~(i < p)
    <3>1. ~(i <= p - 1) /\ i - (p - 1) \in 1..(n - p) /\ p + (i - (p - 1)) = i + 1
      BY <1>1, <2>2
    <3> QED
      BY <1>3, <1>6, <2>2, <3>1
  <2> QED
    BY <2>1, <2>2
<1> HIDE DEF n
<1> QED
  BY <1>4, <1>5, <1>6, <1>7 DEF n, w

Elements(q) == {q[i] : i \in 1..Len(q)}

Injective(q) == \A i, j \in 1..Len(q) : q[i] = q[j] => i = j

LEMMA ElementsRemoved ==
  ASSUME NEW S, NEW q \in Seq(S), Injective(q), NEW p \in 1..Len(q)
  PROVE  /\ Reports!RemoveAt(q, p) \in Seq(S) /\ Injective(Reports!RemoveAt(q, p))
         /\ Elements(Reports!RemoveAt(q, p)) = Elements(q) \ {q[p]}
<1> DEFINE w == Reports!RemoveAt(q, p)
           n == Len(q)
<1>1. /\ w \in Seq(S) /\ Len(w) = n - 1 /\ n \in Nat
      /\ \A i \in 1..(n - 1) : w[i] = IF i < p THEN q[i] ELSE q[i + 1]
  BY RemoveAtProperties, LenProperties
<1> HIDE DEF w
<1>2. \A i, j \in 1..n : q[i] = q[j] => i = j
  BY DEF Injective
<1>3. p \in 1..n
  OBVIOUS
<1> HIDE DEF n
<1> DEFINE g(i) == IF i < p THEN i ELSE i + 1
<1>a. \A i \in 1..(n - 1) : g(i) \in 1..n /\ g(i) # p
  BY <1>1, <1>3
<1>b. \A i \in 1..(n - 1) : w[i] = q[g(i)]
  BY <1>1
<1>c. \A i, j \in 1..(n - 1) : g(i) = g(j) => i = j
  BY <1>1, <1>3
<1> HIDE DEF g
<1>4. \A i, j \in 1..(n - 1) : w[i] = w[j] => i = j
  BY <1>2, <1>a, <1>b, <1>c
<1>5. \A i \in 1..(n - 1) : \E j \in 1..n : w[i] = q[j] /\ j # p
  BY <1>a, <1>b
<1>6. ASSUME NEW j \in 1..n, j # p PROVE \E i \in 1..(n - 1) : w[i] = q[j]
  <2>1. CASE j < p
    BY <1>1, <1>3, <2>1
  <2>2. CASE j > p
    <3>1. j - 1 \in 1..(n - 1) /\ ~(j - 1 < p) /\ (j - 1) + 1 = j
      BY <1>1, <1>3, <2>2
    <3> QED
      BY <1>1, <3>1
  <2> QED
    BY <1>1, <1>3, <1>6, <2>1, <2>2
<1>7. Elements(w) \subseteq Elements(q) \ {q[p]}
  BY <1>1, <1>2, <1>3, <1>5 DEF Elements, n
<1>8. Elements(q) \ {q[p]} \subseteq Elements(w)
  <2> SUFFICES ASSUME NEW x \in Elements(q) \ {q[p]} PROVE x \in Elements(w)
    OBVIOUS
  <2>1. PICK j \in 1..n : x = q[j] /\ j # p
    BY DEF Elements, n
  <2>2. PICK i \in 1..(n - 1) : w[i] = q[j]
    BY <1>6, <2>1
  <2>3. Elements(w) = {w[k] : k \in 1..(n - 1)}
    BY <1>1 DEF Elements
  <2> QED
    BY <2>1, <2>2, <2>3
<1>9. Elements(w) = Elements(q) \ {q[p]}
  BY <1>7, <1>8
<1> QED
  BY <1>1, <1>4, <1>9 DEF w, Injective

LEMMA ElementsInserted ==
  ASSUME NEW S, NEW q \in Seq(S), Injective(q), NEW p \in 1..(Len(q) + 1),
         NEW e \in S, e \notin Elements(q)
  PROVE  /\ Reports!InsertAt(q, p, e) \in Seq(S) /\ Injective(Reports!InsertAt(q, p, e))
         /\ Elements(Reports!InsertAt(q, p, e)) = Elements(q) \cup {e}
<1> DEFINE w == Reports!InsertAt(q, p, e)
           n == Len(q)
<1>1. /\ w \in Seq(S) /\ Len(w) = n + 1 /\ n \in Nat
      /\ \A i \in 1..(n + 1) : w[i] = IF i < p THEN q[i] ELSE IF i = p THEN e ELSE q[i - 1]
  BY InsertAtProperties, LenProperties
<1> HIDE DEF w
<1>2. /\ \A i, j \in 1..n : q[i] = q[j] => i = j
      /\ \A i \in 1..n : q[i] # e
  BY DEF Injective, Elements
<1>3. p \in 1..(n + 1)
  OBVIOUS
<1> HIDE DEF n
<1> DEFINE g(i) == IF i < p THEN i ELSE i - 1
<1>a. \A i \in 1..(n + 1) : i # p => g(i) \in 1..n
  BY <1>1, <1>3
<1>b. \A i \in 1..(n + 1) : w[i] = IF i = p THEN e ELSE q[g(i)]
  BY <1>1, <1>3
<1>c. \A i, j \in 1..(n + 1) : i # p /\ j # p /\ g(i) = g(j) => i = j
  BY <1>1, <1>3
<1> HIDE DEF g
<1>4. \A i, j \in 1..(n + 1) : w[i] = w[j] => i = j
  BY <1>2, <1>a, <1>b, <1>c
<1>5. \A i \in 1..(n + 1) : w[i] = e \/ \E j \in 1..n : w[i] = q[j]
  BY <1>a, <1>b
<1>6. ASSUME NEW j \in 1..n PROVE \E i \in 1..(n + 1) : w[i] = q[j]
  <2>1. CASE j < p
    BY <1>1, <1>3, <2>1
  <2>2. CASE ~(j < p)
    <3>1. j + 1 \in 1..(n + 1) /\ ~(j + 1 < p) /\ j + 1 # p /\ (j + 1) - 1 = j
      BY <1>1, <1>3, <2>2
    <3> QED
      BY <1>1, <3>1
  <2> QED
    BY <2>1, <2>2
<1>7. w[p] = e
  BY <1>1, <1>3
<1>8. Elements(w) \subseteq Elements(q) \cup {e}
  BY <1>1, <1>5 DEF Elements, n
<1>9. Elements(q) \cup {e} \subseteq Elements(w)
  BY <1>1, <1>3, <1>6, <1>7 DEF Elements, n
<1>10. Elements(w) = Elements(q) \cup {e}
  BY <1>8, <1>9
<1> QED
  BY <1>1, <1>4, <1>10 DEF w, Injective

\* The queue of the analytics T, with the iterator and last_unreported_item at one of
\* them; the iterator is never past the end.
Arranged(s, T) ==
  /\ s \in [queue : Seq(Analytics), next : T \cup {NoAnalytic}, last : T \cup {NoAnalytic}]
  /\ Injective(s.queue)
  /\ Elements(s.queue) = T
  /\ s.next = NoAnalytic => s.queue = << >>

LEMMA Elementary ==
  ASSUME NEW q \in Seq(Analytics)
  PROVE  /\ Elements(q) \subseteq Analytics
         /\ \A x \in Elements(q) : x # NoAnalytic
         /\ Elements(q) = {} <=> q = << >>
         /\ Len(q) \in Nat
         /\ q # << >> => /\ Len(q) > 0 /\ Head(q) = q[1]
                       /\ q[1] \in Elements(q) /\ q[Len(q)] \in Elements(q)
<1>1. Len(q) \in Nat /\ \A i \in 1..Len(q) : q[i] \in Analytics
  BY LenProperties
<1>2. Elements(q) \subseteq Analytics
  BY <1>1 DEF Elements
<1>3. \A x \in Elements(q) : x # NoAnalytic
  BY <1>2, NoAnalyticAssumption
<1>4. q = << >> <=> Len(q) = 0
  BY EmptySeq
<1>5. q = << >> => Elements(q) = {}
  BY <1>4 DEF Elements
<1>6. ASSUME q # << >>
      PROVE  Len(q) > 0 /\ Head(q) = q[1] /\ q[1] \in Elements(q) /\ q[Len(q)] \in Elements(q)
  <2>1. 1 \in 1..Len(q) /\ Len(q) \in 1..Len(q)
    BY <1>1, <1>4, <1>6
  <2>2. Head(q) = q[1]
    BY <1>6
  <2> QED
    BY <1>1, <2>1, <2>2 DEF Elements
<1> QED
  BY <1>1, <1>2, <1>3, <1>5, <1>6

LEMMA PlaceProperties ==
  ASSUME NEW s, NEW a \in Elements(s.queue)
  PROVE  Reports!Place(s, a) \in 1..Len(s.queue) /\ s.queue[Reports!Place(s, a)] = a
<1>1. \E i \in 1..Len(s.queue) : s.queue[i] = a
  BY DEF Elements
<1> QED
  BY <1>1 DEF Reports!Place

LEMMA HoldsProperties ==
  ASSUME NEW s, s.queue \in Seq(Analytics), NEW a
  PROVE  Reports!Holds(s, a) <=> a \in Elements(s.queue)
<1>1. DOMAIN s.queue = 1..Len(s.queue)
  BY LenProperties
<1> QED
  BY <1>1 DEF Reports!Holds, Reports!Range, Elements

\* The item after one of the queue is another one, or none.
LEMMA FollowingProperties ==
  ASSUME NEW s, s.queue \in Seq(Analytics), Injective(s.queue), NEW a \in Elements(s.queue)
  PROVE  Reports!Following(s, a) \in (Elements(s.queue) \ {a}) \cup {NoAnalytic}
<1> DEFINE q == s.queue
           i == Reports!Place(s, a)
<1>1. i \in 1..Len(q) /\ q[i] = a /\ Len(q) \in Nat
  BY PlaceProperties, Elementary
<1>2. q[Len(q)] # a => i + 1 \in 1..Len(q)
  BY <1>1
<1>3. Reports!Following(s, a) = IF a = q[Len(q)] THEN NoAnalytic ELSE q[i + 1]
  BY DEF Reports!Following, Reports!Last
<1> HIDE DEF i
<1>4. ASSUME a # q[Len(q)] PROVE q[i + 1] \in Elements(q) \ {a}
  <2>1. i + 1 \in 1..Len(q) /\ i + 1 # i
    BY <1>1, <1>2, <1>4
  <2> QED
    BY <1>1, <2>1 DEF Injective, Elements
<1> QED
  BY <1>3, <1>4
\* Where the iterator is set back to.
LEMMA SetBackArranged ==
  ASSUME NEW T, NEW s,
         s \in [queue : Seq(Analytics), next : T \cup {NoAnalytic}, last : T \cup {NoAnalytic}],
         Injective(s.queue), Elements(s.queue) = T
  PROVE  Arranged(Reports!SetBack(s), T)
<1> DEFINE r == Reports!SetBack(s)
           x == IF s.queue = << >> THEN NoAnalytic ELSE Head(s.queue)
<1>1. x \in T \cup {NoAnalytic} /\ (x = NoAnalytic => s.queue = << >>)
  BY Elementary
<1>2. r = IF s.next = NoAnalytic THEN [s EXCEPT !.next = x] ELSE s
  BY DEF Reports!SetBack, Reports!FirstItem
<1> HIDE DEF r, x
<1>3. CASE s.next = NoAnalytic
  <2>1. /\ r \in [queue : Seq(Analytics), next : T \cup {NoAnalytic}, last : T \cup {NoAnalytic}]
        /\ r.queue = s.queue /\ r.next = x
    BY <1>1, <1>2, <1>3
  <2> QED
    BY <1>1, <2>1 DEF Arranged, r
<1>4. CASE s.next # NoAnalytic
  BY <1>2, <1>4 DEF Arranged, r
<1> QED
  BY <1>3, <1>4

\* MgenAnalyticReporter::Remove leaves nothing at the item.
LEMMA RemovedArranged ==
  ASSUME NEW T, NEW s, Arranged(s, T), NEW a \in Analytics
  PROVE  Arranged(Reports!Removed(s, a), T \ {a})
<1> DEFINE p == Reports!Place(s, a)
           q == IF Reports!Holds(s, a) THEN Reports!RemoveAt(s.queue, p) ELSE s.queue
           x == IF s.next = a THEN Reports!Following(s, a) ELSE s.next
           y == Reports!LeaveLast(s, a)
           r == [last |-> y, queue |-> q, next |-> x]
<1>1. /\ s.queue \in Seq(Analytics) /\ Injective(s.queue) /\ Elements(s.queue) = T
      /\ s.next \in T \cup {NoAnalytic} /\ s.last \in T \cup {NoAnalytic}
      /\ s.next = NoAnalytic => s.queue = << >>
  BY DEF Arranged
<1>2. Reports!Holds(s, a) <=> a \in T
  BY <1>1, HoldsProperties
<1>3. a # NoAnalytic
  BY NoAnalyticAssumption
<1>4. a \in T => p \in 1..Len(s.queue) /\ s.queue[p] = a
  BY <1>1, PlaceProperties
<1>5. q \in Seq(Analytics) /\ Injective(q) /\ Elements(q) = T \ {a}
  <2>1. CASE a \in T
    BY <1>1, <1>2, <1>4, <2>1, ElementsRemoved
  <2>2. CASE a \notin T
    BY <1>1, <1>2, <2>2
  <2> QED
    BY <2>1, <2>2
<1>6. x \in (T \ {a}) \cup {NoAnalytic}
  <2>1. CASE s.next = a
    <3>1. a \in Elements(s.queue)
      BY <1>1, <1>3, <2>1
    <3>2. Reports!Following(s, a) \in (Elements(s.queue) \ {a}) \cup {NoAnalytic}
      BY <1>1, <3>1, FollowingProperties
    <3> QED
      BY <1>1, <2>1, <3>2
  <2>2. CASE s.next # a
    BY <1>1, <2>2
  <2> QED
    BY <2>1, <2>2
<1>7. y \in (T \ {a}) \cup {NoAnalytic}
  <2>1. CASE a # s.last
    <3>1. y = s.last
      BY <2>1 DEF Reports!LeaveLast
    <3> QED
      BY <1>1, <2>1, <3>1
  <2>2. CASE a = s.last /\ a = s.next
    <3>1. y = NoAnalytic
      BY <2>2 DEF Reports!LeaveLast
    <3> QED
      BY <3>1
  <2>3. CASE a = s.last /\ a # s.next
    <3>1. a \in T /\ s.queue # << >>
      BY <1>1, <1>3, <2>3, Elementary
    <3>2. /\ Reports!Place(s, a) \in 1..Len(s.queue) /\ s.queue[Reports!Place(s, a)] = a
          /\ Len(s.queue) \in Nat /\ s.queue[Len(s.queue)] \in T
      BY <1>1, <1>4, <3>1, Elementary
    <3>3. y = IF Reports!Place(s, a) > 1 THEN s.queue[Reports!Place(s, a) - 1]
              ELSE s.queue[Len(s.queue)]
      BY <1>2, <2>3, <3>1 DEF Reports!LeaveLast, Reports!Last
    <3>4. CASE Reports!Place(s, a) > 1
      <4> DEFINE i == Reports!Place(s, a)
                 n == Len(s.queue)
      <4>1. i \in 1..n /\ n \in Nat /\ i > 1
        BY <3>2, <3>4
      <4> HIDE DEF i, n
      <4>2. i - 1 \in 1..n /\ i - 1 # i
        BY <4>1
      <4>3. s.queue[i - 1] \in Elements(s.queue) /\ s.queue[i - 1] # s.queue[i]
        BY <1>1, <4>1, <4>2 DEF Injective, Elements, n
      <4> QED
        BY <1>1, <3>2, <3>3, <3>4, <4>3 DEF i
    <3>5. CASE ~(Reports!Place(s, a) > 1)
      <4>1. s.next \in Elements(s.queue) /\ s.next # a
        BY <1>1, <2>3, <3>1
      <4>2. PICK k \in 1..Len(s.queue) : s.queue[k] = s.next
        BY <4>1 DEF Elements
      <4>3. Reports!Place(s, a) = 1 /\ k # 1
        BY <3>2, <3>5, <4>1, <4>2
      <4>4. Len(s.queue) \in 1..Len(s.queue) /\ 1 \in 1..Len(s.queue) /\ Len(s.queue) # 1
        BY <3>2, <4>2, <4>3
      <4>5. s.queue[Len(s.queue)] # s.queue[1]
        BY <1>1, <4>4 DEF Injective
      <4> QED
        BY <3>2, <3>3, <3>5, <4>3, <4>5
    <3> QED
      BY <3>4, <3>5
  <2> QED
    BY <2>1, <2>2, <2>3
<1>8. Reports!Removed(s, a) = Reports!SetBack(r)
  BY DEF Reports!Removed
<1> HIDE DEF p, q, x, y
<1>9. /\ r \in [queue : Seq(Analytics), next : (T \ {a}) \cup {NoAnalytic},
                last : (T \ {a}) \cup {NoAnalytic}]
      /\ r.queue = q
  BY <1>5, <1>6, <1>7
<1> HIDE DEF r
<1>10. Arranged(Reports!SetBack(r), T \ {a})
  BY <1>5, <1>9, SetBackArranged
<1> QED
  BY <1>8, <1>10

\* MgenAnalyticReporter::Add finds the place.
LEMMA AddedArranged ==
  ASSUME NEW T, NEW s, Arranged(s, T), NEW a \in Analytics, a \notin T, NEW follows \in BOOLEAN
  PROVE  Arranged(Reports!Added(s, a, follows), T \cup {a})
<1> DEFINE r == Reports!Added(s, a, follows)
           U == T \cup {a}
           R == [queue : Seq(Analytics), next : U \cup {NoAnalytic}, last : U \cup {NoAnalytic}]
<1>1. /\ s \in [queue : Seq(Analytics), next : T \cup {NoAnalytic}, last : T \cup {NoAnalytic}]
      /\ s.queue \in Seq(Analytics) /\ Injective(s.queue) /\ Elements(s.queue) = T
      /\ s.next \in T \cup {NoAnalytic} /\ s.last \in T \cup {NoAnalytic}
      /\ s.next = NoAnalytic => s.queue = << >>
  BY DEF Arranged
<1>2. a # NoAnalytic /\ NoAnalytic \notin T
  BY <1>1, Elementary, NoAnalyticAssumption
<1>3. CASE s.last = NoAnalytic /\ s.next = NoAnalytic
  <2>1. s.queue = << >>
    BY <1>1, <1>3
  <2>2. r = [s EXCEPT !.queue = <<a>> \o << >>, !.next = a, !.last = a]
    BY <1>3, <2>1 DEF Reports!Added
  <2>3. <<a>> \o << >> = <<a>> /\ <<a>> \in Seq(Analytics) /\ Len(<<a>>) = 1 /\ <<a>>[1] = a
    BY ConcatEmptySeq
  <2>4. r \in R /\ r.queue = <<a>> /\ r.next = a
    BY <1>1, <2>2, <2>3
  <2>5. T = {}
    BY <1>1, <2>1, Elementary
  <2>6. Injective(<<a>>) /\ Elements(<<a>>) = {a}
    BY <2>3 DEF Injective, Elements
  <2> HIDE DEF r
  <2> QED
    BY <1>2, <2>4, <2>5, <2>6 DEF Arranged, r
<1>4. CASE s.last = NoAnalytic /\ s.next # NoAnalytic
  <2> DEFINE p == Reports!Place(s, s.next)
             q == Reports!InsertAt(s.queue, p, a)
  <2>1. p \in 1..Len(s.queue) /\ Len(s.queue) \in Nat
    BY <1>1, <1>4, PlaceProperties, Elementary
  <2>2. p \in 1..(Len(s.queue) + 1)
    BY <2>1
  <2>3. q \in Seq(Analytics) /\ Injective(q) /\ Elements(q) = U
    BY <1>1, <2>2, ElementsInserted
  <2>4. r = [s EXCEPT !.queue = q, !.next = IF follows THEN a ELSE @, !.last = a]
    BY <1>4 DEF Reports!Added
  <2> HIDE DEF q, r
  <2>5. r \in R /\ r.queue = q /\ r.next # NoAnalytic
    BY <1>1, <1>2, <1>4, <2>3, <2>4
  <2> QED
    BY <2>3, <2>5 DEF Arranged, r
<1>5. CASE s.last # NoAnalytic
  <2> DEFINE p == Reports!Place(s, s.last)
             q == Reports!InsertAt(s.queue, p + 1, a)
  <2>1. p \in 1..Len(s.queue) /\ Len(s.queue) \in Nat /\ Reports!Holds(s, s.last)
    BY <1>1, <1>5, PlaceProperties, HoldsProperties, Elementary
  <2>2. p + 1 \in 1..(Len(s.queue) + 1)
    BY <2>1
  <2>3. q \in Seq(Analytics) /\ Injective(q) /\ Elements(q) = U
    BY <1>1, <2>2, ElementsInserted
  <2>4. r = [s EXCEPT !.queue = q,
                      !.next = IF follows /\ @ = Reports!Following(s, s.last) THEN a ELSE @,
                      !.last = a]
    BY <1>5, <2>1 DEF Reports!Added
  <2>5. s.next # NoAnalytic
    BY <1>1, <1>5, Elementary
  <2> HIDE DEF q, r
  <2>6. r \in R /\ r.queue = q /\ r.next # NoAnalytic
    BY <1>1, <1>2, <2>3, <2>4, <2>5
  <2> QED
    BY <2>3, <2>6 DEF Arranged, r
<1> QED
  BY <1>3, <1>4, <1>5
\* As many items as analytics.
LEMMA LengthCounts ==
  ASSUME NEW q \in Seq(Analytics), Injective(q)
  PROVE  Reports!Cardinality(Elements(q)) = Len(q)
<1> DEFINE n == Len(q)
           f == [i \in 1..n |-> q[i]]
<1>1. n \in Nat
  BY LenProperties
<1>2. f \in Bijection(1..n, Elements(q))
  <2>1. f \in [1..n -> Elements(q)]
    BY DEF Elements
  <2>2. \A i, j \in 1..n : f[i] = f[j] => i = j
    BY DEF Injective
  <2>3. \A x \in Elements(q) : \E i \in 1..n : f[i] = x
    BY DEF Elements
  <2> QED
    BY <2>1, <2>2, <2>3 DEF Bijection, Injection, Surjection, IsInjective
<1> HIDE DEF f, n
<1>3. ExistsBijection(1..n, Elements(q))
  BY <1>2 DEF ExistsBijection
<1>4. Cardinality(Elements(q)) = n
  BY <1>1, <1>3, FS_CountingElements
<1> QED
  BY <1>4 DEF n, Reports!Cardinality, Cardinality

\* The round is made of the items of the queue.
LEMMA RoundProperties ==
  ASSUME NEW T, Arranged(Reports!Queue, T)
  PROVE  Reports!Round \in Seq(T)
<1>1. /\ queue \in Seq(Analytics) /\ Elements(queue) = T /\ next \in T \cup {NoAnalytic}
  BY DEF Arranged, Reports!Queue
<1>2. Len(queue) \in Nat /\ \A i \in 1..Len(queue) : queue[i] \in T
  BY <1>1, LenProperties DEF Elements
<1>3. queue \in Seq(T)
  <2>1. queue \in [1..Len(queue) -> T]
    BY <1>1, <1>2, LenProperties
  <2> QED
    BY <1>2, <2>1, SeqDef
<1>4. CASE next = NoAnalytic
  BY <1>3, <1>4 DEF Reports!Round
<1>5. CASE next # NoAnalytic
  <2> DEFINE i == Reports!Place(Reports!Queue, next)
             a == SubSeq(queue, i, Len(queue))
             b == SubSeq(queue, 1, i - 1)
  <2>1. i \in 1..Len(queue)
    <3>1. Reports!Queue.queue = queue
      BY DEF Reports!Queue
    <3>2. next \in Elements(Reports!Queue.queue)
      BY <1>1, <1>5, <3>1
    <3> QED
      BY <3>1, <3>2, PlaceProperties
  <2>2. Reports!Round = a \o b
    BY <1>5 DEF Reports!Round
  <2> HIDE DEF i
  <2>3. a \in Seq(T)
    <3>1. \A k \in i..Len(queue) : queue[k] \in T
      BY <1>2, <2>1
    <3> QED
      BY <1>2, <2>1, <3>1, SubSeqProperties
  <2>4. b \in Seq(T)
    <3>1. \A k \in 1..(i - 1) : queue[k] \in T
      BY <1>2, <2>1
    <3>2. i - 1 \in Int /\ 1 \in Int
      BY <1>2, <2>1
    <3> QED
      BY <3>1, <3>2, SubSeqProperties
  <2> QED
    BY <2>2, <2>3, <2>4, ConcatProperties
<1> QED
  BY <1>4, <1>5

\* MgenFlow::SendMessage leaves the iterator at an item, unless the last report filled
\* the message to the last byte.
LEMMA SentArranged ==
  ASSUME NEW T, Arranged(Reports!Queue, T), NEW room, Reports!SendMessage(room, FALSE)
  PROVE  Arranged(Reports!Queue', T)
<1> DEFINE q == Reports!Queue
           round == Reports!Round
           full == Reports!Filled(round, room)
           k == CHOOSE i \in full : TRUE
           taken == IF full = {} THEN round ELSE SubSeq(round, 1, k)
           at == IF taken = << >> THEN next ELSE Reports!Following(q, Reports!Last(taken))
<1>1. /\ q.queue = queue /\ q.next = next /\ q.last = last
      /\ queue \in Seq(Analytics) /\ Injective(queue) /\ Elements(queue) = T
      /\ next \in T \cup {NoAnalytic} /\ last \in T \cup {NoAnalytic}
  BY DEF Arranged, Reports!Queue
<1>2. round \in Seq(T)
  BY RoundProperties
<1>3. /\ next' = IF at = NoAnalytic THEN Reports!FirstItem(q) ELSE at
      /\ queue' = queue /\ last' = last
  BY DEF Reports!SendMessage
<1>4. taken \in Seq(T)
  <2>1. full # {} => k \in 1..Len(round)
    BY DEF Reports!Filled
  <2>2. Len(round) \in Nat /\ \A i \in 1..Len(round) : round[i] \in T
    BY <1>2, LenProperties
  <2> HIDE DEF k, full, round
  <2>3. ASSUME full # {} PROVE SubSeq(round, 1, k) \in Seq(T)
    <3>1. k \in Int /\ 1 \in Int /\ \A i \in 1..k : round[i] \in T
      BY <2>1, <2>2, <2>3
    <3> QED
      BY <3>1, SubSeqProperties
  <2> QED
    BY <1>2, <2>3
<1> HIDE DEF q, round, full, k, taken
<1>5. at \in T \cup {NoAnalytic}
  <2>1. CASE taken = << >>
    BY <1>1, <2>1
  <2>2. CASE taken # << >>
    <3>1. Len(taken) \in Nat /\ Len(taken) # 0 /\ \A i \in 1..Len(taken) : taken[i] \in T
      BY <1>4, <2>2, LenProperties, EmptySeq
    <3>2. taken[Len(taken)] \in T
      BY <3>1
    <3>3. Reports!Last(taken) \in Elements(q.queue)
      BY <1>1, <3>2 DEF Reports!Last
    <3>4. Reports!Following(q, Reports!Last(taken)) \in
            (Elements(q.queue) \ {Reports!Last(taken)}) \cup {NoAnalytic}
      BY <1>1, <3>3, FollowingProperties
    <3> QED
      BY <1>1, <2>2, <3>4
  <2> QED
    BY <2>1, <2>2
<1> HIDE DEF at
<1>6. next' \in T \cup {NoAnalytic} /\ (next' = NoAnalytic => queue' = << >>)
  <2>1. Reports!FirstItem(q) = IF queue = << >> THEN NoAnalytic ELSE Head(queue)
    BY <1>1 DEF Reports!FirstItem
  <2>2. queue # << >> => Head(queue) \in T /\ Head(queue) # NoAnalytic
    BY <1>1, Elementary
  <2> QED
    BY <1>3, <1>5, <2>1, <2>2
<1>7. Reports!Queue' = [queue |-> queue, next |-> next', last |-> last]
  BY <1>3 DEF Reports!Queue
<1> QED
  BY <1>1, <1>3, <1>6, <1>7 DEF Arranged

\* The queue is that of the analytics there are.
ListedInv == table \subseteq Analytics /\ Arranged(Reports!Queue, table)

LEMMA ListedInit == Reports!Init => ListedInv
<1> SUFFICES ASSUME Reports!Init PROVE ListedInv
  OBVIOUS
<1>1. /\ table = {} /\ queue = << >>
      /\ Reports!Queue = [queue |-> << >>, next |-> NoAnalytic, last |-> NoAnalytic]
  BY DEF Reports!Init, Reports!Queue
<1>2. << >> \in Seq(Analytics) /\ Len(<< >>) = 0 /\ 1..0 = {}
  BY EmptySeq
<1>3. Injective(<< >>) /\ Elements(<< >>) = {}
  BY <1>2 DEF Injective, Elements
<1> QED
  BY <1>1, <1>2, <1>3 DEF ListedInv, Arranged

LEMMA ListedNext ==
  ASSUME ExactFit = FALSE, ListedInv, [Reports!Next]_reporter
  PROVE  ListedInv'
<1>1. CASE UNCHANGED reporter
  BY <1>1 DEF reporter, ListedInv, Reports!Queue, Arranged
<1>3. ASSUME NEW a \in Analytics, NEW follows \in BOOLEAN, Reports!UpdateAnalyticReport(a, follows)
      PROVE  ListedInv'
  <2> DEFINE s == Reports!Removed(Reports!Queue, a)
             r == Reports!Added(s, a, follows)
  <2>1. Arranged(s, table \ {a})
    BY RemovedArranged DEF ListedInv
  <2> HIDE DEF s
  <2>2. Arranged(r, (table \ {a}) \cup {a})
    BY <2>1, AddedArranged
  <2>3. table' = table \cup {a} /\ queue' = r.queue /\ next' = r.next /\ last' = r.last
    BY <1>3 DEF Reports!UpdateAnalyticReport, Reports!Becomes, s
  <2> HIDE DEF r
  <2>4. (table \ {a}) \cup {a} = table'
    BY <2>3
  <2>5. Arranged(r, table')
    BY <2>2, <2>4
  <2>6. Arranged(Reports!Queue, table)'
    BY <2>3, <2>5 DEF Arranged, Reports!Queue
  <2> QED
    BY <2>3, <2>6 DEF ListedInv
<1>4. ASSUME NEW a \in Analytics, Reports!RemoveAnalytic(a)
      PROVE  ListedInv'
  <2> DEFINE r == Reports!Removed(Reports!Queue, a)
  <2>1. Arranged(r, table \ {a})
    BY RemovedArranged DEF ListedInv
  <2>2. table' = table \ {a} /\ queue' = r.queue /\ next' = r.next /\ last' = r.last
    BY <1>4 DEF Reports!RemoveAnalytic, Reports!Becomes
  <2> HIDE DEF r
  <2>3. Arranged(r, table')
    BY <2>1, <2>2
  <2>4. Arranged(Reports!Queue, table)'
    BY <2>2, <2>3 DEF Arranged, Reports!Queue
  <2> QED
    BY <2>2, <2>4 DEF ListedInv
<1>5. ASSUME NEW room, Reports!SendMessage(room, FALSE)
      PROVE  ListedInv'
  <2>1. table' = table
    BY <1>5 DEF Reports!SendMessage
  <2>2. Arranged(Reports!Queue, table)'
    <3> DEFINE T == table
    <3>1. Arranged(Reports!Queue, T)
      BY DEF ListedInv
    <3> HIDE DEF T
    <3>2. Arranged(Reports!Queue', T)
      BY <1>5, <3>1, SentArranged
    <3> QED
      BY <2>1, <3>2 DEF T
  <2> QED
    BY <2>1, <2>2 DEF ListedInv
<1> QED
  BY <1>1, <1>3, <1>4, <1>5 DEF Reports!Next, Reports!Updates, Reports!Removes, Reports!Sends

LEMMA ListedByInv ==
  ASSUME ListedInv
  PROVE  Listed
<1>1. /\ queue \in Seq(Analytics) /\ Injective(queue) /\ Elements(queue) = table
      /\ next \in table \cup {NoAnalytic} /\ last \in table \cup {NoAnalytic}
      /\ next = NoAnalytic => queue = << >>
  BY DEF ListedInv, Arranged, Reports!Queue
<1>2. Reports!Range(queue) = table
  <2>1. DOMAIN queue = 1..Len(queue)
    BY <1>1, LenProperties
  <2> QED
    BY <1>1, <2>1 DEF Reports!Range, Elements
<1>3. Len(queue) = Reports!Cardinality(table)
  BY <1>1, LengthCounts
<1> QED
  BY <1>1, <1>2, <1>3 DEF Listed, Reports!Listed

\* MgenAnalyticReporter: as long as no report fills a message to its last byte, the
\* queue holds the analytics there are, each once, and neither its iterator nor
\* last_unreported_item stays at one that was removed, however updates, removals and
\* messages alternate.
THEOREM QueueOfTheTable ==
  ASSUME ExactFit = FALSE
  PROVE  MCSpec => []Listed
<1> DEFINE all == <<part, vars, reporter, others>>
<1>1. MCInit => ListedInv
  BY ListedInit DEF MCInit
<1>2. ListedInv /\ [MCNext]_all => ListedInv'
  <2> SUFFICES ASSUME ListedInv, [MCNext]_all PROVE ListedInv'
    OBVIOUS
  <2>1. [Reports!Next]_reporter
    BY DEF MCNext, Windows, Reporting
  <2> QED
    BY <2>1, ListedNext
<1>3. ListedInv => Listed
  BY ListedByInv
<1> QED
  BY <1>1, <1>2, <1>3, PTL DEF MCSpec
-------------------------------------------------------------------------------
(* The payload that mpmgr shares (part "memory").                          *)

segments == s1
keyFile == s2
mgr == s3
mgen == s4
told == s5
quiet == s6

USE DEF segments, keyFile, mgr, mgen, told, quiet

Steps == {"off", "discard", "open", "publish", "size", "clear", "waiting", "bytes", "remove",
          "unlink"}

\* Before mpmgr waits for datagrams, and while the key file names its segment.
Untold == {"off", "discard", "open", "publish", "size", "clear"}
Serving == {"size", "clear", "waiting", "bytes"}

Segment == [size : Nat, bytes : [Shared!Offsets -> Nat], removed : BOOLEAN]

\* A segment that was marked for removal, or none.
Gone(all, s) == s # 0 => all[s].removed

SharedTyped ==
  /\ segments \in Seq(Segment)
  /\ keyFile \in [exists : BOOLEAN, segment : Nat] /\ keyFile.segment <= Len(segments)
  /\ mgr \in [step : Steps, segment : Nat, segments : SUBSET Nat, payloadSize : Nat,
              datagram : Shared!Datagrams]
  /\ mgr.segment <= Len(segments)
  /\ mgen.segment \in Nat /\ mgen.segment <= Len(segments)
  /\ mgen = [step |-> mgen.step, segment |-> mgen.segment, message |-> mgen.message]
  /\ mgen.message = [length |-> mgen.message.length, bytes |-> mgen.message.bytes]
  /\ told \in [length : Shared!Offsets, bytes : [Shared!Offsets -> Nat], misread : BOOLEAN]

\* The key file names the segment of an mpmgr that serves, and every segment that
\* mgen is attached to and that still counts.
Named ==
  /\ mgr.step \in {"discard", "open", "unlink"} => Gone(segments, keyFile.segment)
  /\ mgr.step = "publish" => keyFile.segment = 0 /\ mgr.segment # 0
  /\ mgr.step \in Serving => mgr.segment # 0 /\ keyFile.segment = mgr.segment
  /\ mgen.segment = keyFile.segment \/ Gone(segments, mgen.segment)

\* The segment holds what mpmgr was told, but for the datagram it has in hand, as long
\* as it has misread none.
Stored(s) ==
  /\ mgr.step \in Untold => told = Shared!NothingTold
  /\ mgr.step \in {"clear", "waiting", "bytes"} => segments[s].size = Shared!Size
  /\ mgr.step \in {"waiting", "bytes"} /\ ~told.misread =>
       mgr.payloadSize = told.length /\ segments[s].bytes[0] = told.length
  /\ mgr.step = "waiting" /\ ~told.misread =>
       \A i \in 1..PAYLOAD_MAX : segments[s].bytes[i] = told.bytes[i]
  /\ mgr.step = "bytes" => Shared!EndOf(mgr.datagram) \in Shared!Offsets
  /\ mgr.step = "bytes" /\ ~told.misread =>
       /\ ~Shared!Misread(mgr.datagram)
       /\ \A i \in 1..PAYLOAD_MAX :
            told.bytes[i] = IF i \in (mgr.datagram.offset + 1)..Shared!EndOf(mgr.datagram)
                            THEN mgr.datagram.bytes[i - mgr.datagram.offset]
                            ELSE segments[s].bytes[i]

\* What mgen has read while mpmgr waited.
Read ==
  /\ quiet \in BOOLEAN /\ (quiet => mgr.step = "waiting")
  /\ mgen.step \in {"reading", "sent"} => mgen.segment # 0
  /\ quiet /\ mgen.step = "reading" /\ ~Gone(segments, mgen.segment) /\ ~told.misread =>
       mgen.message.length = told.length
  /\ Shared!PayloadTold

SharedInv == SharedTyped /\ Named /\ Stored(mgr.segment) /\ Read

-------------------------------------------------------------------------------
LEMMA Space == /\ PAYLOAD_MAX \in Nat /\ Shared!Size = PAYLOAD_MAX + 1 /\ Shared!Size \in Nat
              /\ Shared!Offsets = 0..PAYLOAD_MAX /\ 0 \in Shared!Offsets
              /\ Shared!Zeros \in [Shared!Offsets -> Nat]
              /\ \A i \in Shared!Offsets : Shared!Zeros[i] = 0
BY PayloadAssumption DEF Shared!Size, Shared!Offsets, Shared!Zeros

LEMMA DatagramIs ==
  ASSUME NEW d \in Shared!Datagrams
  PROVE  /\ d.offset \in Int /\ d.empty \in BOOLEAN
         /\ d.bytes \in Seq(Nat) /\ Len(d.bytes) \in Nat
         /\ \A i \in 1..Len(d.bytes) : d.bytes[i] \in Nat
         /\ ~d.empty => Shared!EndOf(d) = d.offset + Len(d.bytes)
<1>1. /\ d.offset \in (-NegativeChars)..(PAYLOAD_MAX + 1) /\ d.empty \in BOOLEAN
      /\ \/ d.bytes \in Shared!BoundedSeq(Values, PAYLOAD_MAX + NegativeChars)
         \/ d.bytes = << >>
  BY DEF Shared!Datagrams, Shared!Placed, Shared!Empty, Shared!Chars
<1>2. d.offset \in Int
  BY <1>1, PayloadAssumption
<1>3. PICK m \in Nat : d.bytes \in [1..m -> Nat]
  <2>1. CASE d.bytes \in Shared!BoundedSeq(Values, PAYLOAD_MAX + NegativeChars)
    <3>1. PICK m \in 0..(PAYLOAD_MAX + NegativeChars) : d.bytes \in [1..m -> Values]
      BY <2>1 DEF Shared!BoundedSeq, Shared!SeqOf
    <3>2. m \in Nat
      BY PayloadAssumption
    <3> QED
      BY <3>1, <3>2, PayloadAssumption
  <2>2. CASE d.bytes = << >>
    <3>1. d.bytes \in [1..0 -> Nat] /\ 0 \in Nat
      BY <2>2, EmptySeq
    <3> QED
      BY <3>1
  <2> QED
    BY <1>1, <2>1, <2>2
<1>4. d.bytes \in Seq(Nat)
  BY <1>3, SeqDef
<1>5. Len(d.bytes) = m
  BY <1>3, <1>4, LenProperties
<1>6. ~d.empty => Shared!EndOf(d) = d.offset + Len(d.bytes)
  BY DEF Shared!EndOf
<1> QED
  BY <1>1, <1>2, <1>3, <1>4, <1>5, <1>6

LEMMA NoDatagramIs == Shared!NoDatagram \in Shared!Datagrams
<1>1. << >> \in [1..0 -> Values] /\ 0 \in 0..(PAYLOAD_MAX + NegativeChars)
  BY PayloadAssumption, EmptySeq
<1>2. << >> \in Shared!BoundedSeq(Values, PAYLOAD_MAX + NegativeChars)
  BY <1>1 DEF Shared!BoundedSeq, Shared!SeqOf
<1>3. 0 \in Shared!Chars
  BY PayloadAssumption DEF Shared!Chars
<1> QED
  BY <1>2, <1>3 DEF Shared!Datagrams, Shared!Placed, Shared!NoDatagram

\* Other bytes in one segment, and everything else as it was.
WithBytes(s, x) == [segments EXCEPT ![s].bytes = x]

LEMMA BytesSet ==
  ASSUME segments \in Seq(Segment), NEW s \in 1..Len(segments),
         NEW x \in [Shared!Offsets -> Nat]
  PROVE  /\ WithBytes(s, x) \in Seq(Segment) /\ Len(WithBytes(s, x)) = Len(segments)
         /\ WithBytes(s, x)[s].bytes = x
         /\ \A t \in 1..Len(segments) : WithBytes(s, x)[t].size = segments[t].size
                                        /\ WithBytes(s, x)[t].removed = segments[t].removed
<1> DEFINE new == WithBytes(s, x)
<1>1. Len(segments) \in Nat /\ segments \in [1..Len(segments) -> Segment]
  BY LenProperties
<1>2. /\ new \in [1..Len(segments) -> Segment]
      /\ new[s].bytes = x
      /\ \A t \in 1..Len(segments) : new[t].size = segments[t].size
                                     /\ new[t].removed = segments[t].removed
  BY <1>1 DEF Segment, WithBytes
<1> HIDE DEF new
<1>3. new \in Seq(Segment)
  <2> DEFINE n == Len(segments)
  <2>1. n \in Nat /\ new \in [1..n -> Segment]
    BY <1>1, <1>2
  <2> HIDE DEF n
  <2> QED
    BY <2>1, SeqDef
<1>4. Len(new) = Len(segments)
  BY <1>1, <1>2, <1>3, LenProperties
<1> QED
  BY <1>2, <1>3, <1>4 DEF new

\* GPSSetMemory stores what there is room for, and nothing beside it.
Stores(new, s, offset, b) ==
  /\ new \in Seq(Segment) /\ Len(new) = Len(segments)
  /\ \A t \in 1..Len(segments) : new[t].size = segments[t].size
                                 /\ new[t].removed = segments[t].removed
  /\ \A i \in Shared!Offsets :
       new[s].bytes[i] = IF i \in offset..(offset + Len(b) - 1) THEN b[i - offset + 1]
                         ELSE segments[s].bytes[i]

LEMMA PutStores ==
  ASSUME segments \in Seq(Segment), NEW s \in 1..Len(segments), NEW offset \in Nat,
         NEW b \in Seq(Nat), offset + Len(b) <= segments[s].size
  PROVE  Stores(Shared!Put(s, offset, b), s, offset, b)
<1> DEFINE x == [i \in Shared!Offsets |->
                   IF i \in offset..(offset + Len(b) - 1) THEN b[i - offset + 1]
                   ELSE segments[s].bytes[i]]
           new == WithBytes(s, x)
<1>1. /\ Len(segments) \in Nat /\ segments \in [1..Len(segments) -> Segment]
      /\ \A t \in 1..Len(segments) : segments[t] \in Segment
  BY LenProperties
<1>2. Len(b) \in Nat /\ \A i \in 1..Len(b) : b[i] \in Nat
  BY LenProperties
<1>3. segments[s].size \in Nat
  BY <1>1 DEF Segment
<1>4. Shared!Within(segments[s].size, offset, Len(b)) = Len(b)
  BY <1>2, <1>3 DEF Shared!Within
<1>5. Shared!Put(s, offset, b) = new
  BY <1>4 DEF Shared!Put, WithBytes
<1>6. x \in [Shared!Offsets -> Nat]
  <2>1. \A i \in Shared!Offsets : segments[s].bytes[i] \in Nat
    BY <1>1 DEF Segment
  <2>2. \A i \in Shared!Offsets : i \in offset..(offset + Len(b) - 1) => b[i - offset + 1] \in Nat
    <3> SUFFICES ASSUME NEW i \in Shared!Offsets, i \in offset..(offset + Len(b) - 1)
                 PROVE  b[i - offset + 1] \in Nat
      OBVIOUS
    <3>1. i - offset + 1 \in 1..Len(b)
      BY <1>2
    <3> QED
      BY <1>2, <3>1
  <2> QED
    BY <2>1, <2>2
<1>7. \A i \in Shared!Offsets :
        x[i] = IF i \in offset..(offset + Len(b) - 1) THEN b[i - offset + 1]
               ELSE segments[s].bytes[i]
  OBVIOUS
<1> HIDE DEF x
<1>8. /\ new \in Seq(Segment) /\ Len(new) = Len(segments)
      /\ new[s].bytes = x
      /\ \A t \in 1..Len(segments) : new[t].size = segments[t].size
                                     /\ new[t].removed = segments[t].removed
  BY <1>6, BytesSet
<1> QED
  BY <1>5, <1>7, <1>8 DEF Stores

\* What a removal does: the segment the file names is marked.
Marks(new, s) ==
  /\ new \in Seq(Segment) /\ Len(new) = Len(segments)
  /\ s # 0 => new[s].removed
  /\ \A t \in 1..Len(segments) : segments[t].removed => new[t].removed

LEMMA RemovedMarks ==
  ASSUME SharedTyped
  PROVE  Marks(Shared!Removed, keyFile.segment)
<1> DEFINE s == keyFile.segment
           new == [segments EXCEPT ![s].removed = TRUE]
<1>1. /\ segments \in Seq(Segment) /\ Len(segments) \in Nat
      /\ segments \in [1..Len(segments) -> Segment]
      /\ s \in Nat /\ s <= Len(segments)
  BY LenProperties DEF SharedTyped
<1>2. CASE s = 0
  BY <1>1, <1>2 DEF Shared!Removed, Marks
<1>3. CASE s # 0
  <2>1. s \in 1..Len(segments)
    BY <1>1, <1>3
  <2>2. Shared!Removed = new
    BY <1>3 DEF Shared!Removed
  <2> HIDE DEF s
  <2>3. /\ new \in [1..Len(segments) -> Segment] /\ new[s].removed
        /\ \A t \in 1..Len(segments) : segments[t].removed => new[t].removed
    BY <1>1, <2>1 DEF Segment
  <2> HIDE DEF new
  <2>4. new \in Seq(Segment)
    BY <1>1, <2>3, SeqDef
  <2>5. Len(new) = Len(segments)
    BY <1>1, <2>3, <2>4, LenProperties
  <2> QED
    BY <2>2, <2>3, <2>4, <2>5 DEF Marks, s
<1> QED
  BY <1>2, <1>3
-------------------------------------------------------------------------------
(* The steps of mpmgr.  Each gives up what mgen may have read.             *)

LEMMA ReadSpoiled ==
  ASSUME SharedInv, mgen' = mgen, quiet' = FALSE
  PROVE  Read'
<1>1. mgen.step \in {"reading", "sent"} => mgen.segment # 0
  BY DEF SharedInv, Read
<1> QED
  BY <1>1 DEF Read, Shared!PayloadTold

\* Whoever counted as gone goes on doing so.
LEMMA GoneStays ==
  ASSUME SharedTyped, NEW s \in Nat, s <= Len(segments), Gone(segments, s),
         \A t \in 1..Len(segments) : segments[t].removed => segments'[t].removed
  PROVE  Gone(segments', s)
<1>1. s # 0 => s \in 1..Len(segments)
  BY LenProperties DEF SharedTyped
<1> QED
  BY <1>1 DEF Gone

\* What stays typed when mgen and the key file do not change.
LEMMA TypedAgain ==
  ASSUME SharedTyped, segments' \in Seq(Segment), Len(segments') = Len(segments),
         keyFile' = keyFile, mgen' = mgen, told' = told,
         mgr' \in [step : Steps, segment : Nat, segments : SUBSET Nat, payloadSize : Nat,
                   datagram : Shared!Datagrams],
         mgr'.segment <= Len(segments)
  PROVE  SharedTyped'
BY DEF SharedTyped

LEMMA MgrStartKept ==
  ASSUME SharedInv, Shared!MgrStart, quiet' = FALSE
  PROVE  SharedInv'
<1> DEFINE s == keyFile.segment
<1>1. /\ SharedTyped /\ Named /\ Stored(mgr.segment) /\ mgr.step = "off"
      /\ keyFile' = keyFile /\ mgen' = mgen /\ told' = told
      /\ s \in Nat /\ s <= Len(segments) /\ Len(segments) \in Nat
  BY LenProperties DEF SharedInv, Shared!MgrStart, SharedTyped
<1>2. Read'
  BY <1>1, ReadSpoiled
<1>3. told = Shared!NothingTold
  BY <1>1 DEF Stored, Untold
<1>4. mgen.segment = s \/ Gone(segments, mgen.segment)
  BY <1>1 DEF Named
<1>5. CASE /\ Shared!Attaches(s) /\ segments[s].size = Shared!Size
           /\ mgr' = [mgr EXCEPT !.step = "clear", !.segments = {s}, !.segment = s]
           /\ segments' = segments
  <2>1. s # 0
    BY <1>5 DEF Shared!Attaches
  <2>2. /\ mgr' \in [step : Steps, segment : Nat, segments : SUBSET Nat, payloadSize : Nat,
                     datagram : Shared!Datagrams]
        /\ mgr'.step = "clear" /\ mgr'.segment = s
    BY <1>1, <1>5 DEF SharedTyped, Steps
  <2>3. SharedTyped'
    BY <1>1, <1>5, <2>2, TypedAgain DEF SharedTyped
  <2>4. Named'
    BY <1>1, <1>4, <1>5, <2>1, <2>2 DEF Named, Gone, Serving
  <2>5. Stored(mgr.segment)'
    BY <1>1, <1>3, <1>5, <2>2 DEF Stored
  <2> QED
    BY <1>2, <2>3, <2>4, <2>5 DEF SharedInv
<1>6. CASE /\ Shared!Attaches(s) /\ segments[s].size # Shared!Size
           /\ mgr' = [mgr EXCEPT !.step = "discard", !.segments = {s}]
           /\ segments' = Shared!Removed
  <2>1. Marks(segments', s)
    BY <1>1, <1>6, RemovedMarks
  <2>2. /\ mgr' \in [step : Steps, segment : Nat, segments : SUBSET Nat, payloadSize : Nat,
                     datagram : Shared!Datagrams]
        /\ mgr'.step = "discard" /\ mgr'.segment = mgr.segment
    BY <1>1, <1>6 DEF SharedTyped, Steps
  <2>3. SharedTyped'
    BY <1>1, <2>1, <2>2, TypedAgain DEF Marks, SharedTyped
  <2>4. Gone(segments', s)
    BY <2>1 DEF Marks, Gone
  <2>5. Gone(segments, mgen.segment) => Gone(segments', mgen.segment)
    BY <1>1, <2>1, GoneStays DEF Marks, SharedTyped
  <2>6. Named'
    BY <1>1, <1>4, <2>2, <2>4, <2>5 DEF Named, Serving
  <2>7. Stored(mgr.segment)'
    BY <1>1, <1>3, <2>2 DEF Stored
  <2> QED
    BY <1>2, <2>3, <2>6, <2>7 DEF SharedInv
<1>7. CASE /\ Shared!MayFail(s)
           /\ mgr' = [mgr EXCEPT !.step = "open"]
           /\ segments' = segments
  <2>1. Gone(segments, s)
    BY <1>7 DEF Gone, Shared!MayFail
  <2>2. /\ mgr' \in [step : Steps, segment : Nat, segments : SUBSET Nat, payloadSize : Nat,
                     datagram : Shared!Datagrams]
        /\ mgr'.step = "open" /\ mgr'.segment = mgr.segment
    BY <1>1, <1>7 DEF SharedTyped, Steps
  <2>3. SharedTyped'
    BY <1>1, <1>7, <2>2, TypedAgain DEF SharedTyped
  <2>4. Named'
    BY <1>1, <1>4, <1>7, <2>1, <2>2 DEF Named, Gone, Serving
  <2>5. Stored(mgr.segment)'
    BY <1>1, <1>3, <2>2 DEF Stored
  <2> QED
    BY <1>2, <2>3, <2>4, <2>5 DEF SharedInv
<1> QED
  BY <1>5, <1>6, <1>7 DEF Shared!MgrStart, Shared!Old

\* The key file goes; nothing that counts was attached by it.
FileGone ==
  /\ Gone(segments, keyFile.segment)
  /\ keyFile' \in [exists : BOOLEAN, segment : {0}]
  /\ mgen' = mgen

LEMMA NothingNamed ==
  ASSUME SharedInv, FileGone,
         \A t \in 1..Len(segments) : segments[t].removed => segments'[t].removed
  PROVE  keyFile'.segment = 0 /\ Gone(segments', mgen.segment)
         /\ mgen'.segment = mgen.segment
<1>1. Gone(segments, mgen.segment)
  BY DEF SharedInv, Named, FileGone, Gone
<1>2. SharedTyped /\ mgen.segment \in Nat /\ mgen.segment <= Len(segments)
  BY DEF SharedInv, SharedTyped
<1>3. Gone(segments', mgen.segment)
  BY <1>1, <1>2, GoneStays DEF FileGone
<1> QED
  BY <1>3 DEF FileGone
MgrType == [step : Steps, segment : Nat, segments : SUBSET Nat, payloadSize : Nat,
            datagram : Shared!Datagrams]

ToldType == [length : Shared!Offsets, bytes : [Shared!Offsets -> Nat], misread : BOOLEAN]

LEMMA TypedLater ==
  ASSUME SharedTyped, segments' \in Seq(Segment), Len(segments) <= Len(segments'),
         keyFile' \in [exists : BOOLEAN, segment : Nat], keyFile'.segment <= Len(segments'),
         mgen' = mgen, told' \in ToldType, mgr' \in MgrType, mgr'.segment <= Len(segments')
  PROVE  SharedTyped'
<1>1. Len(segments) \in Nat /\ Len(segments') \in Nat
  BY LenProperties DEF SharedTyped
<1>2. mgen.segment \in Nat /\ mgen.segment <= Len(segments)
  BY DEF SharedTyped
<1>3. mgen.segment <= Len(segments')
  BY <1>1, <1>2
<1> QED
  BY <1>3 DEF SharedTyped, MgrType, ToldType

LEMMA NothingToldIs ==
  /\ Shared!NothingTold \in ToldType /\ Shared!NothingTold.length = 0
  /\ \A i \in Shared!Offsets : Shared!NothingTold.bytes[i] = 0
  /\ Shared!Misled \in ToldType /\ Shared!Misled.misread = TRUE
BY Space DEF ToldType, Shared!NothingTold, Shared!Misled

LEMMA MgrOffIs ==
  Shared!MgrOff \in MgrType /\ Shared!MgrOff.step = "off" /\ Shared!MgrOff.segment = 0
BY NoDatagramIs DEF MgrType, Steps, Shared!MgrOff

LEMMA DiscardKept ==
  ASSUME SharedInv, Shared!Discard, quiet' = FALSE
  PROVE  SharedInv'
<1>1. /\ SharedTyped /\ Named /\ Stored(mgr.segment) /\ mgr.step = "discard"
      /\ segments' = segments /\ mgen' = mgen /\ told' = told
      /\ keyFile' = [exists |-> FALSE, segment |-> 0]
      /\ mgr' = [mgr EXCEPT !.step = "open"]
  BY DEF SharedInv, Shared!Discard
<1>2. Read'
  BY <1>1, ReadSpoiled
<1>3. /\ mgr' \in MgrType /\ mgr'.step = "open" /\ mgr'.segment = mgr.segment
  BY <1>1 DEF SharedTyped, MgrType, Steps
<1>4. FileGone
  BY <1>1 DEF Named, FileGone
<1>5. keyFile'.segment = 0 /\ Gone(segments', mgen.segment) /\ mgen'.segment = mgen.segment
  BY <1>1, <1>4, NothingNamed
<1>6. SharedTyped'
  <2>1. /\ segments \in Seq(Segment) /\ Len(segments) \in Nat /\ mgr.segment <= Len(segments)
        /\ told \in ToldType
    BY <1>1, LenProperties DEF SharedTyped, ToldType
  <2> QED
    BY <1>1, <1>3, <1>5, <2>1, TypedLater
<1>7. Named'
  BY <1>1, <1>3, <1>5 DEF Named, Gone, Serving
<1>8. told = Shared!NothingTold
  BY <1>1 DEF Stored, Untold
<1>9. Stored(mgr.segment)'
  BY <1>1, <1>3, <1>8 DEF Stored
<1> QED
  BY <1>2, <1>6, <1>7, <1>9 DEF SharedInv

LEMMA CreateKept ==
  ASSUME SharedInv, Shared!Create, quiet' = FALSE
  PROVE  SharedInv'
<1> DEFINE x == [size |-> 0, bytes |-> Shared!Zeros, removed |-> FALSE]
           n == Len(segments)
<1>1. /\ SharedTyped /\ Named /\ Stored(mgr.segment) /\ mgr.step = "open"
      /\ segments' = Append(segments, x) /\ mgen' = mgen /\ told' = told
      /\ keyFile' = [exists |-> TRUE, segment |-> 0]
      /\ mgr' = [mgr EXCEPT !.step = "publish", !.segment = Len(segments'),
                            !.segments = @ \cup {Len(segments')}]
  BY DEF SharedInv, Shared!Create
<1>2. Read'
  BY <1>1, ReadSpoiled
<1>3. x \in Segment
  BY Space DEF Segment
<1>4. segments \in Seq(Segment) /\ n \in Nat
  BY <1>1, LenProperties DEF SharedTyped
<1>5. /\ segments' \in Seq(Segment) /\ Len(segments') = n + 1
      /\ \A t \in 1..n : segments'[t] = segments[t]
  BY <1>1, <1>3, <1>4, AppendProperties
<1>6. mgr' \in MgrType /\ mgr'.step = "publish" /\ mgr'.segment = n + 1
  <2> DEFINE m == n + 1
  <2>1. m \in Nat /\ Len(segments') = m
    BY <1>4, <1>5
  <2>2. mgr \in MgrType
    BY <1>1 DEF SharedTyped, MgrType
  <2> HIDE DEF m, n
  <2>3. mgr' = [mgr EXCEPT !.step = "publish", !.segment = m, !.segments = @ \cup {m}]
    BY <1>1, <2>1
  <2>4. mgr' \in MgrType /\ mgr'.step = "publish" /\ mgr'.segment = m
    BY <2>1, <2>2, <2>3 DEF MgrType, Steps
  <2> QED
    BY <2>4 DEF m
<1>7. FileGone
  BY <1>1 DEF Named, FileGone
<1>8. keyFile'.segment = 0 /\ Gone(segments', mgen.segment) /\ mgen'.segment = mgen.segment
  BY <1>5, <1>7, NothingNamed
<1>9. SharedTyped'
  <2>1. told \in ToldType
    BY <1>1 DEF SharedTyped, ToldType
  <2> HIDE DEF n
  <2>2. n <= n + 1 /\ 0 <= n + 1 /\ n + 1 # 0
    BY <1>4
  <2>3. keyFile' \in [exists : BOOLEAN, segment : Nat]
    BY <1>1
  <2> QED
    BY <1>1, <1>5, <1>6, <1>8, <2>1, <2>2, <2>3, TypedLater DEF n
<1>10. n + 1 # 0
  BY <1>4
<1>11. Named'
  BY <1>1, <1>6, <1>8, <1>10 DEF Named, Gone, Serving
<1>12. told = Shared!NothingTold
  BY <1>1 DEF Stored, Untold
<1>13. Stored(mgr.segment)'
  BY <1>1, <1>6, <1>12 DEF Stored
<1> QED
  BY <1>2, <1>9, <1>11, <1>13 DEF SharedInv

LEMMA PublishKept ==
  ASSUME SharedInv, Shared!Publish, quiet' = FALSE
  PROVE  SharedInv'
<1>1. /\ SharedTyped /\ Named /\ Stored(mgr.segment) /\ mgr.step = "publish"
      /\ segments' = segments /\ mgen' = mgen /\ told' = told
      /\ keyFile' = [keyFile EXCEPT !.segment = mgr.segment]
      /\ mgr' = [mgr EXCEPT !.step = "size"]
  BY DEF SharedInv, Shared!Publish
<1>2. Read'
  BY <1>1, ReadSpoiled
<1>3. /\ mgr' \in MgrType /\ mgr'.step = "size" /\ mgr'.segment = mgr.segment
      /\ keyFile' \in [exists : BOOLEAN, segment : Nat] /\ keyFile'.segment = mgr.segment
      /\ mgr.segment \in Nat /\ mgr.segment <= Len(segments)
  BY <1>1 DEF SharedTyped, MgrType, Steps
<1>4. mgr.segment # 0 /\ Gone(segments, mgen.segment)
  BY <1>1 DEF Named, Gone
<1>5. SharedTyped'
  <2>1. segments \in Seq(Segment) /\ Len(segments) \in Nat /\ told \in ToldType
    BY <1>1, LenProperties DEF SharedTyped, ToldType
  <2> QED
    BY <1>1, <1>3, <2>1, TypedLater
<1>6. Named'
  BY <1>1, <1>3, <1>4 DEF Named, Gone, Serving
<1>7. told = Shared!NothingTold
  BY <1>1 DEF Stored, Untold
<1>8. Stored(mgr.segment)'
  BY <1>1, <1>3, <1>7 DEF Stored
<1> QED
  BY <1>2, <1>5, <1>6, <1>8 DEF SharedInv

LEMMA WriteSizeKept ==
  ASSUME SharedInv, Shared!WriteSize, quiet' = FALSE
  PROVE  SharedInv'
<1> DEFINE s == mgr.segment
           n == Len(segments)
<1>1. /\ SharedTyped /\ Named /\ Stored(s) /\ mgr.step = "size"
      /\ segments' = [segments EXCEPT ![s].size = Shared!Size, ![s].bytes = Shared!Zeros]
      /\ keyFile' = keyFile /\ mgen' = mgen /\ told' = told
      /\ mgr' = [mgr EXCEPT !.step = "clear"]
  BY DEF SharedInv, Shared!WriteSize
<1>2. Read'
  BY <1>1, ReadSpoiled
<1>3. mgr' \in MgrType /\ mgr'.step = "clear" /\ mgr'.segment = s
  BY <1>1 DEF SharedTyped, MgrType, Steps
<1>4. /\ segments \in Seq(Segment) /\ n \in Nat /\ s \in Nat /\ s <= n
      /\ segments \in [1..n -> Segment]
      /\ keyFile \in [exists : BOOLEAN, segment : Nat] /\ keyFile.segment <= n
      /\ mgen.segment \in Nat /\ mgen.segment <= n /\ told \in ToldType
  BY <1>1, LenProperties DEF SharedTyped, ToldType
<1>5. s # 0 /\ keyFile.segment = s
  BY <1>1 DEF Named, Serving
<1>6. s \in 1..n
  BY <1>4, <1>5
<1>7. /\ segments' \in [1..n -> Segment] /\ segments'[s].size = Shared!Size
      /\ \A t \in 1..n : segments'[t].removed = segments[t].removed
  <2> HIDE DEF s, n
  <2> QED
    BY <1>1, <1>4, <1>6, Space DEF Segment
<1>8. segments' \in Seq(Segment)
  <2> HIDE DEF n
  <2> QED
    BY <1>4, <1>7, SeqDef
<1>9. Len(segments') = n
  BY <1>4, <1>7, <1>8, LenProperties
<1>10. SharedTyped'
  <2> HIDE DEF n
  <2>1. n <= n
    BY <1>4
  <2> QED
    BY <1>1, <1>3, <1>4, <1>8, <1>9, <2>1, TypedLater DEF n
<1>11. Gone(segments, mgen.segment) => Gone(segments', mgen.segment)
  BY <1>1, <1>4, <1>7, GoneStays
<1>12. Named'
  BY <1>1, <1>3, <1>5, <1>11 DEF Named, Serving
<1>13. told = Shared!NothingTold
  BY <1>1 DEF Stored, Untold
<1>14. Stored(mgr.segment)'
  BY <1>1, <1>3, <1>7, <1>13 DEF Stored
<1> QED
  BY <1>2, <1>10, <1>12, <1>14 DEF SharedInv
LEMMA ClearKept ==
  ASSUME SharedInv, Shared!Clear, quiet' = FALSE
  PROVE  SharedInv'
<1> DEFINE s == mgr.segment
           n == Len(segments)
           b == [i \in 1..Shared!Size |-> 0]
<1>1. /\ SharedTyped /\ Named /\ Stored(s) /\ mgr.step = "clear"
      /\ segments' = Shared!Put(s, 0, b)
      /\ keyFile' = keyFile /\ mgen' = mgen /\ told' = told
      /\ mgr' = [mgr EXCEPT !.step = "waiting", !.payloadSize = 0]
  BY DEF SharedInv, Shared!Clear, Shared!Cleared
<1>2. Read'
  BY <1>1, ReadSpoiled
<1>3. mgr' \in MgrType /\ mgr'.step = "waiting" /\ mgr'.segment = s /\ mgr'.payloadSize = 0
  BY <1>1 DEF SharedTyped, MgrType, Steps
<1>4. /\ segments \in Seq(Segment) /\ n \in Nat /\ s \in Nat /\ s <= n
      /\ keyFile \in [exists : BOOLEAN, segment : Nat] /\ keyFile.segment <= n
      /\ mgen.segment \in Nat /\ mgen.segment <= n /\ told \in ToldType
  BY <1>1, LenProperties DEF SharedTyped, ToldType
<1>5. s # 0 /\ keyFile.segment = s
  BY <1>1 DEF Named, Serving
<1>6. s \in 1..n
  BY <1>4, <1>5
<1>7. segments[s].size = Shared!Size
  BY <1>1 DEF Stored
<1>8. b \in Seq(Nat) /\ Len(b) = Shared!Size /\ \A i \in 1..Shared!Size : b[i] = 0
  <2>1. Shared!Size \in Nat /\ b \in [1..Shared!Size -> Nat]
    BY Space
  <2>2. b \in Seq(Nat)
    <3> HIDE DEF b
    <3> QED
      BY <2>1, SeqDef
  <2> QED
    BY <2>1, <2>2, LenProperties
<1> HIDE DEF b
<1>9. Stores(segments', s, 0, b)
  <2>1. 0 \in Nat /\ 0 + Len(b) <= segments[s].size
    BY <1>7, <1>8, Space
  <2> HIDE DEF n
  <2>2. Stores(Shared!Put(s, 0, b), s, 0, b)
    BY <1>4, <1>6, <1>8, <2>1, PutStores DEF n
  <2> QED
    BY <1>1, <2>2
<1>10. \A i \in Shared!Offsets : segments'[s].bytes[i] = 0
  <2> SUFFICES ASSUME NEW i \in Shared!Offsets PROVE segments'[s].bytes[i] = 0
    OBVIOUS
  <2>1. i \in 0..(0 + Len(b) - 1) /\ i - 0 + 1 \in 1..Shared!Size
    BY <1>8, Space
  <2> QED
    BY <1>8, <1>9, <2>1 DEF Stores
<1>11. SharedTyped'
  <2>1. segments' \in Seq(Segment) /\ Len(segments') = n /\ n <= n
    BY <1>4, <1>9 DEF Stores
  <2> HIDE DEF n
  <2> QED
    BY <1>1, <1>3, <1>4, <2>1, TypedLater DEF n
<1>12. Gone(segments, mgen.segment) => Gone(segments', mgen.segment)
  BY <1>1, <1>4, <1>9, GoneStays DEF Stores
<1>13. Named'
  BY <1>1, <1>3, <1>5, <1>12 DEF Named, Serving
<1>14. told = Shared!NothingTold
  BY <1>1 DEF Stored, Untold
<1>15. Stored(mgr.segment)'
  <2>1. segments'[s].size = Shared!Size
    BY <1>6, <1>7, <1>9 DEF Stores
  <2>2. \A i \in 1..PAYLOAD_MAX : i \in Shared!Offsets
    BY Space
  <2> HIDE DEF s
  <2> QED
    BY <1>1, <1>3, <1>10, <1>14, <2>1, <2>2, Space, NothingToldIs DEF Stored, Untold
<1> QED
  BY <1>2, <1>11, <1>13, <1>15 DEF SharedInv

LEMMA ReceiveKept ==
  ASSUME SharedInv, NEW d \in Shared!Datagrams, Shared!Receive(d), quiet' = FALSE
  PROVE  SharedInv'
<1> DEFINE s == mgr.segment
           n == Len(segments)
           e == Shared!EndOf(d)
           grows == e > mgr.payloadSize
           misread == told.misread \/ Shared!Misread(d)
<1>1. /\ SharedTyped /\ Named /\ Stored(s) /\ mgr.step = "waiting"
      /\ keyFile' = keyFile /\ mgen' = mgen
      /\ told' = IF misread THEN Shared!Misled ELSE Shared!ToldBy(d)
      /\ e \in Shared!Offsets
      /\ IF grows
         THEN /\ segments' = Shared!Put(s, 0, <<e>>)
              /\ mgr' = [mgr EXCEPT !.step = "bytes", !.payloadSize = e, !.datagram = d]
         ELSE /\ segments' = segments
              /\ mgr' = [mgr EXCEPT !.step = "bytes", !.datagram = d]
  BY DEF SharedInv, Shared!Receive
<1>2. Read'
  BY <1>1, ReadSpoiled
<1>3. /\ segments \in Seq(Segment) /\ n \in Nat /\ s \in Nat /\ s <= n
      /\ keyFile \in [exists : BOOLEAN, segment : Nat] /\ keyFile.segment <= n
      /\ mgen.segment \in Nat /\ mgen.segment <= n
      /\ told \in ToldType /\ mgr \in MgrType
  BY <1>1, LenProperties DEF SharedTyped, MgrType, ToldType
<1>4. e \in Nat /\ e <= PAYLOAD_MAX
  BY <1>1, Space
<1>5. s # 0 /\ keyFile.segment = s
  BY <1>1 DEF Named, Serving
<1>6. s \in 1..n
  BY <1>3, <1>5
<1>7. /\ segments[s].size = Shared!Size
      /\ ~told.misread =>
           /\ mgr.payloadSize = told.length /\ segments[s].bytes[0] = told.length
           /\ \A i \in 1..PAYLOAD_MAX : segments[s].bytes[i] = told.bytes[i]
  BY <1>1 DEF Stored
<1> HIDE DEF e, grows, misread
<1>8. /\ told' \in ToldType
      /\ misread => told'.misread
      /\ ~misread =>
           /\ ~told.misread /\ ~Shared!Misread(d)
           /\ told'.length = IF e > told.length THEN e ELSE told.length
           /\ \A i \in 1..PAYLOAD_MAX :
                told'.bytes[i] = IF i \in (d.offset + 1)..e THEN d.bytes[i - d.offset]
                                 ELSE told.bytes[i]
  <2>1. CASE misread
    BY <1>1, <2>1, NothingToldIs
  <2>2. CASE ~misread
    <3> DEFINE x == IF e > told.length THEN e ELSE told.length
               y == [i \in Shared!Offsets |-> IF i \in (d.offset + 1)..e
                                              THEN d.bytes[i - d.offset] ELSE told.bytes[i]]
    <3>1. ~told.misread /\ ~Shared!Misread(d) /\ ~d.empty /\ ~(d.offset < 0)
      BY <2>2 DEF misread, Shared!Misread
    <3>2. /\ d.offset \in Nat /\ Len(d.bytes) \in Nat /\ e = d.offset + Len(d.bytes)
          /\ \A i \in 1..Len(d.bytes) : d.bytes[i] \in Nat
      BY <3>1, DatagramIs DEF e
    <3>3. ASSUME NEW i \in Shared!Offsets, i \in (d.offset + 1)..e
          PROVE  d.bytes[i - d.offset] \in Nat
      <4>1. i - d.offset \in 1..Len(d.bytes)
        BY <3>2, <3>3, Space
      <4> QED
        BY <3>2, <4>1
    <3>4. y \in [Shared!Offsets -> Nat]
      BY <1>3, <3>3 DEF ToldType
    <3>5. x \in Shared!Offsets
      BY <1>1, <1>3 DEF ToldType
    <3>6. told' = [told EXCEPT !.length = x, !.bytes = y]
      BY <1>1, <2>2 DEF e, Shared!ToldBy
    <3>7. \A i \in 1..PAYLOAD_MAX :
            i \in Shared!Offsets
            /\ y[i] = IF i \in (d.offset + 1)..e THEN d.bytes[i - d.offset] ELSE told.bytes[i]
      BY Space
    <3>8. told'.length = IF e > told.length THEN e ELSE told.length
      BY <1>3, <3>6 DEF ToldType
    <3> HIDE DEF x, y
    <3>9. told' \in ToldType /\ told'.bytes = y
      BY <1>3, <3>4, <3>5, <3>6 DEF ToldType
    <3> QED
      BY <2>2, <3>1, <3>7, <3>8, <3>9
  <2> QED
    BY <2>1, <2>2
<1>9. /\ segments' \in Seq(Segment) /\ Len(segments') = n
      /\ segments'[s].size = Shared!Size
      /\ segments'[s].bytes[0] = IF grows THEN e ELSE segments[s].bytes[0]
      /\ \A i \in 1..PAYLOAD_MAX : segments'[s].bytes[i] = segments[s].bytes[i]
      /\ \A t \in 1..n : segments[t].removed => segments'[t].removed
  <2>1. CASE grows
    <3> DEFINE b == <<e>>
    <3>1. b \in Seq(Nat) /\ Len(b) = 1 /\ b[1] = e
      BY <1>4
    <3> HIDE DEF b
    <3>2. 0 \in Nat /\ 0 + Len(b) <= segments[s].size
      BY <1>7, <3>1, Space
    <3>3. Stores(Shared!Put(s, 0, b), s, 0, b)
      <4> HIDE DEF n
      <4> QED
        BY <1>3, <1>6, <3>1, <3>2, PutStores DEF n
    <3>4. Stores(segments', s, 0, b)
      BY <1>1, <2>1, <3>3 DEF b
    <3>5. 0 \in 0..(0 + Len(b) - 1) /\ 0 - 0 + 1 = 1
      BY <3>1
    <3>6. segments'[s].bytes[0] = e
      BY <3>1, <3>4, <3>5, Space DEF Stores
    <3>7. \A i \in 1..PAYLOAD_MAX : i \in Shared!Offsets /\ i \notin 0..(0 + Len(b) - 1)
      BY <3>1, Space
    <3> QED
      BY <1>6, <1>7, <2>1, <3>4, <3>6, <3>7 DEF Stores
  <2>2. CASE ~grows
    BY <1>1, <1>3, <1>7, <2>2
  <2> QED
    BY <2>1, <2>2
<1>10. /\ mgr' \in MgrType /\ mgr'.step = "bytes" /\ mgr'.segment = s /\ mgr'.datagram = d
       /\ mgr'.payloadSize = IF grows THEN e ELSE mgr.payloadSize
  <2>1. CASE grows
    BY <1>1, <1>3, <1>4, <2>1 DEF MgrType, Steps
  <2>2. CASE ~grows
    BY <1>1, <1>3, <2>2 DEF MgrType, Steps
  <2> QED
    BY <2>1, <2>2
<1>11. SharedTyped'
  <2>1. n <= n
    BY <1>3
  <2> HIDE DEF n
  <2> QED
    BY <1>1, <1>3, <1>8, <1>9, <1>10, <2>1, TypedLater DEF n
<1>12. Gone(segments, mgen.segment) => Gone(segments', mgen.segment)
  BY <1>1, <1>3, <1>9, GoneStays
<1>13. Named'
  BY <1>1, <1>5, <1>10, <1>12 DEF Named, Serving
<1>14. Stored(mgr.segment)'
  <2> HIDE DEF s
  <2>1. mgr'.segment = s /\ mgr'.step = "bytes" /\ mgr'.datagram = d
    BY <1>10
  <2>2. Shared!EndOf(mgr'.datagram) \in Shared!Offsets
    BY <1>1, <2>1 DEF e
  <2>3. CASE misread
    BY <1>8, <1>9, <2>1, <2>2, <2>3 DEF Stored, Untold
  <2>4. CASE ~misread
    <3>1. ~told.misread /\ ~Shared!Misread(mgr'.datagram)
      BY <1>8, <2>1, <2>4
    <3>2. mgr'.payloadSize = told'.length /\ segments'[s].bytes[0] = told'.length
      BY <1>7, <1>8, <1>9, <1>10, <2>4, <3>1 DEF grows
    <3>3. \A i \in 1..PAYLOAD_MAX :
            told'.bytes[i] = IF i \in (mgr'.datagram.offset + 1)..Shared!EndOf(mgr'.datagram)
                             THEN mgr'.datagram.bytes[i - mgr'.datagram.offset]
                             ELSE segments'[s].bytes[i]
      BY <1>7, <1>8, <1>9, <2>1, <2>4, <3>1 DEF e
    <3> QED
      BY <1>9, <2>1, <2>2, <3>1, <3>2, <3>3 DEF Stored, Untold
  <2> QED
    BY <2>3, <2>4
<1> QED
  BY <1>2, <1>11, <1>13, <1>14 DEF SharedInv

LEMMA WriteBytesKept ==
  ASSUME SharedInv, Shared!WriteBytes, quiet' = FALSE
  PROVE  SharedInv'
<1> DEFINE s == mgr.segment
           n == Len(segments)
           d == mgr.datagram
           e == Shared!EndOf(d)
<1>1. /\ SharedTyped /\ Named /\ Stored(s) /\ mgr.step = "bytes"
      /\ ~d.empty /\ ~(d.offset < -1)
      /\ keyFile' = keyFile /\ mgen' = mgen /\ told' = told
      /\ segments' = Shared!Put(s, d.offset + 1, d.bytes)
      /\ mgr' = [mgr EXCEPT !.step = "waiting", !.datagram = Shared!NoDatagram]
  BY DEF SharedInv, Shared!WriteBytes, Shared!Stored, Shared!Astray
<1>2. Read'
  BY <1>1, ReadSpoiled
<1>3. /\ segments \in Seq(Segment) /\ n \in Nat /\ s \in Nat /\ s <= n
      /\ keyFile \in [exists : BOOLEAN, segment : Nat] /\ keyFile.segment <= n
      /\ mgen.segment \in Nat /\ mgen.segment <= n
      /\ told \in ToldType /\ mgr \in MgrType /\ d \in Shared!Datagrams
  BY <1>1, LenProperties DEF SharedTyped, MgrType, ToldType
<1>4. /\ d.offset \in Int /\ d.offset + 1 \in Nat
      /\ d.bytes \in Seq(Nat) /\ Len(d.bytes) \in Nat
      /\ e = d.offset + Len(d.bytes)
  <2>1. d.offset \in Int /\ d.bytes \in Seq(Nat) /\ Len(d.bytes) \in Nat
        /\ e = d.offset + Len(d.bytes)
    BY <1>1, <1>3, DatagramIs
  <2>2. d.offset + 1 \in Nat
    BY <1>1, <2>1
  <2> QED
    BY <2>1, <2>2
<1>5. s # 0 /\ keyFile.segment = s
  BY <1>1 DEF Named, Serving
<1>6. s \in 1..n
  BY <1>3, <1>5
<1>7. /\ segments[s].size = Shared!Size /\ e \in Shared!Offsets
      /\ ~told.misread =>
           /\ ~Shared!Misread(d)
           /\ mgr.payloadSize = told.length /\ segments[s].bytes[0] = told.length
           /\ \A i \in 1..PAYLOAD_MAX :
                told.bytes[i] = IF i \in (d.offset + 1)..e THEN d.bytes[i - d.offset]
                                ELSE segments[s].bytes[i]
  BY <1>1 DEF Stored
<1>8. mgr' \in MgrType /\ mgr'.step = "waiting" /\ mgr'.segment = s
      /\ mgr'.payloadSize = mgr.payloadSize
  BY <1>1, <1>3, NoDatagramIs DEF MgrType, Steps
<1>9. Stores(segments', s, d.offset + 1, d.bytes)
  <2>1. d.offset + 1 \in Nat /\ (d.offset + 1) + Len(d.bytes) <= segments[s].size
    BY <1>4, <1>7, Space
  <2> HIDE DEF s, n, d, e
  <2>2. Stores(Shared!Put(s, d.offset + 1, d.bytes), s, d.offset + 1, d.bytes)
    BY <1>3, <1>4, <1>6, <2>1, PutStores DEF n
  <2> QED
    BY <1>1, <2>2
<1>10. ~told.misread => segments'[s].bytes[0] = told.length
  <2> SUFFICES ASSUME ~told.misread PROVE segments'[s].bytes[0] = told.length
    OBVIOUS
  <2>1. ~(d.offset < 0)
    BY <1>7 DEF Shared!Misread
  <2>2. 0 \notin (d.offset + 1)..((d.offset + 1) + Len(d.bytes) - 1)
    BY <1>4, <2>1
  <2> QED
    BY <1>7, <1>9, <2>2, Space DEF Stores
<1>11. ASSUME ~told.misread, NEW i \in 1..PAYLOAD_MAX
       PROVE  segments'[s].bytes[i] = told.bytes[i]
  <2> HIDE DEF s, n, d, e
  <2>1. i \in Shared!Offsets /\ i \in Int
    BY Space
  <2>2. i \in (d.offset + 1)..((d.offset + 1) + Len(d.bytes) - 1) <=> i \in (d.offset + 1)..e
    <3> DEFINE o == d.offset
               m == Len(d.bytes)
    <3>1. o \in Int /\ m \in Nat /\ e = o + m
      BY <1>4
    <3> HIDE DEF o, m
    <3>2. (o + 1) + m - 1 = e
      BY <3>1
    <3> QED
      BY <3>2 DEF o, m
  <2>3. i - (d.offset + 1) + 1 = i - d.offset
    BY <1>4, <2>1
  <2>4. segments'[s].bytes[i] =
          IF i \in (d.offset + 1)..((d.offset + 1) + Len(d.bytes) - 1)
          THEN d.bytes[i - (d.offset + 1) + 1] ELSE segments[s].bytes[i]
    BY <1>9, <2>1 DEF Stores
  <2> QED
    BY <1>7, <1>11, <2>2, <2>3, <2>4
<1>12. segments' \in Seq(Segment) /\ Len(segments') = n /\ segments'[s].size = Shared!Size
       /\ \A t \in 1..n : segments[t].removed => segments'[t].removed
  BY <1>6, <1>7, <1>9 DEF Stores
<1>13. SharedTyped'
  <2>1. n <= n
    BY <1>3
  <2> HIDE DEF n
  <2> QED
    BY <1>1, <1>3, <1>8, <1>12, <2>1, TypedLater DEF n
<1>14. Gone(segments, mgen.segment) => Gone(segments', mgen.segment)
  BY <1>1, <1>3, <1>12, GoneStays
<1>15. Named'
  BY <1>1, <1>5, <1>8, <1>14 DEF Named, Serving
<1>16. Stored(mgr.segment)'
  <2> HIDE DEF s
  <2>1. mgr'.segment = s /\ mgr'.step = "waiting"
    BY <1>8
  <2> QED
    BY <1>1, <1>7, <1>8, <1>10, <1>11, <1>12, <2>1 DEF Stored, Untold
<1> QED
  BY <1>2, <1>13, <1>15, <1>16 DEF SharedInv

LEMMA DieWritingKept ==
  ASSUME SharedInv, Shared!DieWriting, quiet' = FALSE
  PROVE  SharedInv'
<1> DEFINE s == mgr.segment
           n == Len(segments)
           d == mgr.datagram
           x(stored) == [i \in Shared!Offsets |-> IF d.empty /\ i > d.offset
                                                  THEN stored[i] ELSE segments[s].bytes[i]]
<1>1. /\ SharedTyped /\ Named /\ mgr.step = "bytes"
      /\ keyFile' = keyFile /\ mgen' = mgen
      /\ told' = Shared!NothingTold /\ mgr' = Shared!MgrOff
  BY DEF SharedInv, Shared!DieWriting
<1>2. PICK stored \in [Shared!Offsets -> Values \cup {0}] :
        segments' = [segments EXCEPT ![s].bytes = x(stored)]
  BY DEF Shared!DieWriting
<1>3. Read'
  BY <1>1, ReadSpoiled
<1>4. /\ segments \in Seq(Segment) /\ n \in Nat /\ s \in Nat /\ s <= n
      /\ segments \in [1..n -> Segment]
      /\ keyFile \in [exists : BOOLEAN, segment : Nat] /\ keyFile.segment <= n
      /\ mgen.segment \in Nat /\ mgen.segment <= n
  BY <1>1, LenProperties DEF SharedTyped
<1>5. s \in 1..n
  BY <1>1, <1>4 DEF Named, Serving
<1>6. x(stored) \in [Shared!Offsets -> Nat]
  <2>1. \A i \in Shared!Offsets : segments[s].bytes[i] \in Nat
    BY <1>4, <1>5 DEF Segment
  <2>2. \A i \in Shared!Offsets : stored[i] \in Nat
    BY <1>2, PayloadAssumption
  <2> QED
    BY <2>1, <2>2
<1> HIDE DEF x
<1>7. /\ segments' \in Seq(Segment) /\ Len(segments') = n
      /\ \A t \in 1..n : segments[t].removed => segments'[t].removed
  <2> DEFINE b == x(stored)
  <2>1. segments' = WithBytes(s, b) /\ b \in [Shared!Offsets -> Nat]
    BY <1>2, <1>6 DEF WithBytes
  <2> HIDE DEF b, s
  <2> QED
    BY <1>4, <1>5, <2>1, BytesSet
<1>8. mgr' \in MgrType /\ mgr'.segment = 0 /\ mgr'.step = "off" /\ told' \in ToldType
  BY <1>1, MgrOffIs, NothingToldIs
<1>9. SharedTyped'
  <2>1. n <= n
    BY <1>4
  <2> HIDE DEF n
  <2> QED
    BY <1>1, <1>4, <1>7, <1>8, <2>1, TypedLater DEF n
<1>10. Gone(segments, mgen.segment) => Gone(segments', mgen.segment)
  BY <1>1, <1>4, <1>7, GoneStays
<1>11. Named'
  BY <1>1, <1>8, <1>10 DEF Named, Serving
<1>12. Stored(mgr.segment)'
  BY <1>1, <1>8 DEF Stored, Untold
<1> QED
  BY <1>3, <1>9, <1>11, <1>12 DEF SharedInv

LEMMA MgrStopKept ==
  ASSUME SharedInv, Shared!MgrStop, quiet' = FALSE
  PROVE  SharedInv'
<1>1. /\ SharedTyped /\ Named /\ Stored(mgr.segment) /\ mgr.step = "waiting"
      /\ segments' = segments /\ keyFile' = keyFile /\ mgen' = mgen /\ told' = told
      /\ mgr' = [mgr EXCEPT !.step = "remove", !.segments = @ \ {mgr.segment}, !.segment = 0]
  BY DEF SharedInv, Shared!MgrStop
<1>2. Read'
  BY <1>1, ReadSpoiled
<1>3. mgr' \in MgrType /\ mgr'.step = "remove" /\ mgr'.segment = 0
  BY <1>1 DEF SharedTyped, MgrType, Steps
<1>4. SharedTyped'
  <2>1. /\ segments \in Seq(Segment) /\ Len(segments) \in Nat /\ told \in ToldType
        /\ keyFile \in [exists : BOOLEAN, segment : Nat] /\ keyFile.segment <= Len(segments)
    BY <1>1, LenProperties DEF SharedTyped, ToldType
  <2> QED
    BY <1>1, <1>3, <2>1, TypedLater
<1>5. Named'
  BY <1>1, <1>3 DEF Named, Gone, Serving
<1>6. Stored(mgr.segment)'
  BY <1>1, <1>3 DEF Stored, Untold
<1> QED
  BY <1>2, <1>4, <1>5, <1>6 DEF SharedInv

LEMMA RemoveSegmentKept ==
  ASSUME SharedInv, Shared!RemoveSegment, quiet' = FALSE
  PROVE  SharedInv'
<1>1. /\ SharedTyped /\ Named /\ Stored(mgr.segment) /\ mgr.step = "remove"
      /\ segments' = Shared!Removed /\ keyFile' = keyFile /\ mgen' = mgen /\ told' = told
      /\ mgr' = [mgr EXCEPT !.step = "unlink"]
  BY DEF SharedInv, Shared!RemoveSegment
<1>2. Read'
  BY <1>1, ReadSpoiled
<1>3. mgr' \in MgrType /\ mgr'.step = "unlink" /\ mgr'.segment = mgr.segment
  BY <1>1 DEF SharedTyped, MgrType, Steps
<1>4. Marks(segments', keyFile.segment)
  BY <1>1, RemovedMarks
<1>5. /\ segments \in Seq(Segment) /\ Len(segments) \in Nat /\ told \in ToldType
      /\ keyFile \in [exists : BOOLEAN, segment : Nat] /\ keyFile.segment <= Len(segments)
      /\ mgr.segment <= Len(segments) /\ mgen.segment \in Nat /\ mgen.segment <= Len(segments)
  BY <1>1, LenProperties DEF SharedTyped, ToldType
<1>6. SharedTyped'
  BY <1>1, <1>3, <1>4, <1>5, TypedLater DEF Marks
<1>7. Gone(segments', keyFile.segment)
  BY <1>4 DEF Marks, Gone
<1>8. Gone(segments, mgen.segment) => Gone(segments', mgen.segment)
  BY <1>1, <1>4, <1>5, GoneStays DEF Marks
<1>9. Named'
  BY <1>1, <1>3, <1>7, <1>8 DEF Named, Serving
<1>10. Stored(mgr.segment)'
  BY <1>1, <1>3 DEF Stored, Untold
<1> QED
  BY <1>2, <1>6, <1>9, <1>10 DEF SharedInv

LEMMA UnlinkKept ==
  ASSUME SharedInv, Shared!Unlink, quiet' = FALSE
  PROVE  SharedInv'
<1>1. /\ SharedTyped /\ Named /\ mgr.step = "unlink"
      /\ segments' = segments /\ mgen' = mgen /\ told' = Shared!NothingTold
      /\ keyFile' = [exists |-> FALSE, segment |-> 0]
      /\ mgr' = Shared!MgrOff
  BY DEF SharedInv, Shared!Unlink
<1>2. Read'
  BY <1>1, ReadSpoiled
<1>3. FileGone
  BY <1>1 DEF Named, FileGone
<1>4. keyFile'.segment = 0 /\ Gone(segments', mgen.segment) /\ mgen'.segment = mgen.segment
  BY <1>1, <1>3, NothingNamed
<1>5. SharedTyped'
  <2>1. segments \in Seq(Segment) /\ Len(segments) \in Nat
    BY <1>1, LenProperties DEF SharedTyped
  <2>2. mgr' \in MgrType /\ mgr'.segment = 0 /\ told' \in ToldType
    BY <1>1, MgrOffIs, NothingToldIs
  <2> QED
    BY <1>1, <1>4, <2>1, <2>2, TypedLater
<1>6. mgr'.step = "off"
  BY <1>1, MgrOffIs
<1>7. Named'
  BY <1>4, <1>6 DEF Named, Serving
<1>8. Stored(mgr.segment)'
  BY <1>1, <1>6 DEF Stored, Untold
<1> QED
  BY <1>2, <1>5, <1>7, <1>8 DEF SharedInv

LEMMA MgrDiesKept ==
  ASSUME SharedInv, Shared!MgrDies, quiet' = FALSE
  PROVE  SharedInv'
<1>1. /\ SharedTyped /\ Named
      /\ segments' = segments /\ keyFile' = keyFile /\ mgen' = mgen
      /\ told' = Shared!NothingTold /\ mgr' = Shared!MgrOff
  BY DEF SharedInv, Shared!MgrDies
<1>2. Read'
  <2>1. mgen' = mgen
    BY <1>1
  <2> QED
    BY <2>1, ReadSpoiled
<1>3. SharedTyped'
  <2>1. /\ segments \in Seq(Segment) /\ Len(segments) \in Nat
        /\ keyFile \in [exists : BOOLEAN, segment : Nat] /\ keyFile.segment <= Len(segments)
    BY <1>1, LenProperties DEF SharedTyped
  <2>2. mgr' \in MgrType /\ mgr'.segment = 0 /\ told' \in ToldType
    BY <1>1, MgrOffIs, NothingToldIs
  <2> QED
    BY <1>1, <2>1, <2>2, TypedLater
<1>4. mgr'.step = "off"
  BY <1>1, MgrOffIs
<1>5. Named'
  BY <1>1, <1>4 DEF Named, Serving
<1>6. Stored(mgr.segment)'
  BY <1>1, <1>4 DEF Stored, Untold
<1> QED
  BY <1>2, <1>3, <1>5, <1>6 DEF SharedInv

LEMMA MgrKept ==
  ASSUME SharedInv, Shared!Mgr, quiet' = FALSE
  PROVE  SharedInv'
BY MgrStartKept, DiscardKept, CreateKept, PublishKept, WriteSizeKept, ClearKept, ReceiveKept,
   WriteBytesKept, DieWritingKept, MgrStopKept, RemoveSegmentKept, UnlinkKept, MgrDiesKept DEF Shared!Mgr

-------------------------------------------------------------------------------
(* The steps of mgen.                                                      *)

\* What of the invariant holds on when mpmgr takes no step.
LEMMA MgenTyped ==
  ASSUME SharedInv, UNCHANGED <<segments, keyFile, mgr, told>>,
         mgen'.segment = mgen.segment \/ mgen'.segment = keyFile.segment \/ mgen'.segment = 0,
         mgen' = [step |-> mgen'.step, segment |-> mgen'.segment, message |-> mgen'.message],
         mgen'.message = [length |-> mgen'.message.length, bytes |-> mgen'.message.bytes]
  PROVE  SharedTyped' /\ Named' /\ Stored(mgr.segment)'
<1>1. SharedTyped'
  BY LenProperties DEF SharedInv, SharedTyped
<1>2. Named'
  BY DEF SharedInv, Named, Gone
<1>3. Stored(mgr.segment)'
  BY DEF SharedInv, Stored
<1> QED
  BY <1>1, <1>2, <1>3

LEMMA MgenStartKept ==
  ASSUME SharedInv, Shared!MgenStart, quiet' = quiet
  PROVE  SharedInv'
<1>1. PICK s \in {0, keyFile.segment} :
        mgen' = [step |-> "idle", segment |-> s, message |-> Shared!Silent]
  BY DEF Shared!MgenStart, Shared!Old
<1>2. SharedTyped' /\ Named' /\ Stored(mgr.segment)'
  <2>1. UNCHANGED <<segments, keyFile, mgr, told>>
    BY DEF Shared!MgenStart
  <2>2. mgen'.message = [length |-> mgen'.message.length, bytes |-> mgen'.message.bytes]
    BY <1>1 DEF Shared!Silent
  <2> QED
    BY <1>1, <2>1, <2>2, MgenTyped
<1>3. Read'
  BY <1>1 DEF SharedInv, Read, Shared!PayloadTold, Shared!MgenStart
<1> QED
  BY <1>2, <1>3 DEF SharedInv

LEMMA ReadingKept ==
  ASSUME SharedInv, Shared!Reading
  PROVE  SharedInv'
<1> DEFINE s == mgen.segment
           r == IF Shared!Within(segments[s].size, 0, 1) = 1 THEN segments[s].bytes[0] ELSE 0
<1>1. /\ SharedTyped /\ Named /\ Stored(mgr.segment)
      /\ mgen.step = "idle" /\ s # 0
      /\ mgen' = [mgen EXCEPT !.step = "reading", !.message = [length |-> r, bytes |-> << >>]]
      /\ UNCHANGED <<segments, keyFile, mgr, told>>
      /\ quiet' = (mgr.step = "waiting")
  BY DEF SharedInv, Shared!Reading, Shared!ReadLength
<1> HIDE DEF r
<1>2. /\ mgen'.step = "reading" /\ mgen'.segment = s
      /\ mgen'.message = [length |-> r, bytes |-> << >>] /\ mgen'.message.length = r
      /\ mgen' = [step |-> mgen'.step, segment |-> mgen'.segment, message |-> mgen'.message]
      /\ mgen'.message = [length |-> mgen'.message.length, bytes |-> mgen'.message.bytes]
  BY <1>1 DEF SharedTyped
<1>3. SharedTyped' /\ Named' /\ Stored(mgr.segment)'
  BY <1>1, <1>2, MgenTyped
<1>4. ASSUME mgr.step = "waiting", ~Gone(segments, s), ~told.misread PROVE r = told.length
  <2>1. mgr.segment = s
    BY <1>1, <1>4 DEF Named, Serving
  <2>2. segments[s].size = Shared!Size /\ segments[s].bytes[0] = told.length
    BY <1>1, <1>4, <2>1 DEF Stored
  <2>3. Shared!Within(segments[s].size, 0, 1) = 1
    BY <2>2, Space DEF Shared!Within
  <2> QED
    BY <2>2, <2>3 DEF r
<1>5. Read'
  BY <1>1, <1>2, <1>4 DEF Read, Shared!PayloadTold
<1> QED
  BY <1>3, <1>5 DEF SharedInv

LEMMA SendKept ==
  ASSUME SharedInv, Shared!Send, quiet' = quiet
  PROVE  SharedInv'
<1> DEFINE s == mgen.segment
           b == [i \in 1..mgen.message.length |-> Shared!ByteAt(i)]
<1>1. /\ SharedTyped /\ Named /\ Stored(mgr.segment) /\ Read
      /\ mgen.step = "reading"
      /\ mgen' = [mgen EXCEPT !.step = "sent", !.message.bytes = b]
      /\ UNCHANGED <<segments, keyFile, mgr, told>>
  BY DEF SharedInv, Shared!Send
<1> HIDE DEF b
<1>2. /\ mgen'.step = "sent" /\ mgen'.segment = s
      /\ mgen'.message.length = mgen.message.length /\ mgen'.message.bytes = b
      /\ mgen' = [step |-> mgen'.step, segment |-> mgen'.segment, message |-> mgen'.message]
      /\ mgen'.message = [length |-> mgen'.message.length, bytes |-> mgen'.message.bytes]
  BY <1>1 DEF SharedTyped
<1>3. SharedTyped' /\ Named' /\ Stored(mgr.segment)'
  BY <1>1, <1>2, MgenTyped
<1>4. s # 0
  BY <1>1 DEF Read
<1>5. ASSUME quiet, ~segments[s].removed,
             ~told.misread
      PROVE  /\ mgen.message.length = told.length
             /\ \A i \in 1..told.length : b[i] = told.bytes[i]
  <2>1. ~Gone(segments, s)
    BY <1>4, <1>5 DEF Gone
  <2>2. mgr.step = "waiting" /\ mgen.message.length = told.length
    BY <1>1, <1>5, <2>1 DEF Read
  <2>3. mgr.segment = s
    BY <1>1, <2>1, <2>2 DEF Named, Serving
  <2>4. \A i \in 1..PAYLOAD_MAX : segments[s].bytes[i] = told.bytes[i]
    BY <1>1, <1>5, <2>2, <2>3 DEF Stored
  <2>5. told.length \in Nat /\ told.length <= PAYLOAD_MAX
    BY <1>1, Space DEF SharedTyped
  <2>6. \A i \in 1..told.length : i \in 1..PAYLOAD_MAX /\ i \in Shared!Offsets
    BY <2>5, Space
  <2> QED
    BY <2>2, <2>4, <2>6 DEF b, Shared!ByteAt
<1>6. Read'
  BY <1>1, <1>2, <1>4, <1>5 DEF Read, Shared!PayloadTold
<1> QED
  BY <1>3, <1>6 DEF SharedInv

LEMMA MgenSilent ==
  ASSUME SharedInv, Shared!NextMessage \/ Shared!MgenStop, quiet' = quiet
  PROVE  SharedInv'
<1>1. /\ UNCHANGED <<segments, keyFile, mgr, told>>
      /\ mgen' = [mgen EXCEPT !.step = "idle", !.message = Shared!Silent] \/ mgen' = Shared!MgenOff
  BY DEF Shared!NextMessage, Shared!MgenStop
<1>2. /\ mgen'.step \in {"idle", "off"}
      /\ mgen'.segment = mgen.segment \/ mgen'.segment = 0
      /\ mgen'.message = Shared!Silent
      /\ mgen' = [step |-> mgen'.step, segment |-> mgen'.segment, message |-> mgen'.message]
  <2>1. CASE mgen' = [mgen EXCEPT !.step = "idle", !.message = Shared!Silent]
    <3>1. mgen = [step |-> mgen.step, segment |-> mgen.segment, message |-> mgen.message]
      BY DEF SharedInv, SharedTyped
    <3> QED
      BY <2>1, <3>1
  <2>2. CASE mgen' = Shared!MgenOff
    BY <2>2 DEF Shared!MgenOff
  <2> QED
    BY <1>1, <2>1, <2>2
<1>3. mgen'.message = [length |-> mgen'.message.length, bytes |-> mgen'.message.bytes]
  BY <1>2 DEF Shared!Silent
<1>4. SharedTyped' /\ Named' /\ Stored(mgr.segment)'
  BY <1>1, <1>2, <1>3, MgenTyped
<1>5. Read'
  BY <1>1, <1>2 DEF SharedInv, Read, Shared!PayloadTold
<1> QED
  BY <1>4, <1>5 DEF SharedInv

LEMMA SharedInit == Shared!Init => SharedInv
<1> SUFFICES ASSUME Shared!Init PROVE SharedInv
  OBVIOUS
<1> DEFINE x(size) == [size |-> size, bytes |-> Shared!Zeros, removed |-> FALSE]
<1>1. /\ mgr = Shared!MgrOff /\ mgen = Shared!MgenOff /\ told = Shared!NothingTold /\ quiet = FALSE
      /\ \/ segments = << >> /\ keyFile = [exists |-> FALSE, segment |-> 0]
         \/ \E size \in OldSizes :
              segments = <<x(size)>> /\ keyFile = [exists |-> TRUE, segment |-> 1]
  BY DEF Shared!Init
<1>2. /\ segments \in Seq(Segment) /\ Len(segments) \in Nat
      /\ keyFile \in [exists : BOOLEAN, segment : Nat] /\ keyFile.segment <= Len(segments)
  <2>1. \A size \in OldSizes : x(size) \in Segment
    BY Space, PayloadAssumption DEF Segment
  <2> HIDE DEF x
  <2>2. CASE segments = << >> /\ keyFile = [exists |-> FALSE, segment |-> 0]
    BY <2>2, EmptySeq
  <2>3. ASSUME NEW size \in OldSizes,
               segments = <<x(size)>>, keyFile = [exists |-> TRUE, segment |-> 1]
        PROVE  /\ segments \in Seq(Segment) /\ Len(segments) \in Nat
               /\ keyFile \in [exists : BOOLEAN, segment : Nat]
               /\ keyFile.segment <= Len(segments)
    <3> DEFINE y == x(size)
    <3>1. y \in Segment
      BY <2>1
    <3> HIDE DEF y
    <3>2. segments = <<y>>
      BY <2>3 DEF y
    <3>3. segments \in Seq(Segment) /\ Len(segments) = 1
      BY <3>1, <3>2
    <3> QED
      BY <2>3, <3>3
  <2> QED
    BY <1>1, <2>2, <2>3
<1>3. /\ mgen.step = "off" /\ mgen.segment = 0
      /\ mgen = [step |-> mgen.step, segment |-> mgen.segment, message |-> mgen.message]
      /\ mgen.message = [length |-> mgen.message.length, bytes |-> mgen.message.bytes]
  BY <1>1 DEF Shared!MgenOff, Shared!Silent
<1>4. SharedTyped
  BY <1>1, <1>2, <1>3, MgrOffIs, NothingToldIs DEF SharedTyped, MgrType, ToldType
<1>5. Named
  BY <1>1, <1>3, MgrOffIs DEF Named, Gone, Serving
<1>6. Stored(mgr.segment)
  BY <1>1, MgrOffIs DEF Stored
<1>7. Read
  BY <1>1, <1>3 DEF Read, Shared!PayloadTold
<1> QED
  BY <1>4, <1>5, <1>6, <1>7 DEF SharedInv

LEMMA SharedNext ==
  ASSUME SharedInv, Shared!Next
  PROVE  SharedInv'
<1>1. CASE Shared!Mgr /\ quiet' = FALSE
  BY <1>1, MgrKept
<1>2. CASE Shared!Reading
  BY <1>2, ReadingKept
<1>3. CASE Shared!MgenStart /\ quiet' = quiet
  BY <1>3, MgenStartKept
<1>4. CASE Shared!Send /\ quiet' = quiet
  BY <1>4, SendKept
<1>5. CASE (Shared!NextMessage \/ Shared!MgenStop) /\ quiet' = quiet
  BY <1>5, MgenSilent
<1> QED
  BY <1>1, <1>2, <1>3, <1>4, <1>5 DEF Shared!Next

\* MgenPayloadMgr and MgenFlow::SendMessage: a message carries the whole payload that
\* mpmgr has been told, however mpmgr died and came back, whoever is attached to what,
\* and for every size of the payload and of a char, unless mpmgr takes a step while mgen
\* reads or has taken a datagram without bytes or with an offset that no char holds.
THEOREM PayloadCarried == MCSpec => []PayloadTold
<1> DEFINE all == <<part, vars, reporter, others>>
           I == part = "memory" => SharedInv
<1>1. MCInit => I
  BY SharedInit DEF MCInit
<1>2. I /\ [MCNext]_all => I'
  <2> SUFFICES ASSUME I, [MCNext]_all PROVE I'
    OBVIOUS
  <2>1. part' = part
    BY DEF MCNext, Windows, Reporting
  <2>2. CASE part = "memory"
    <3>1. Shared!Next \/ UNCHANGED others
      BY <2>2 DEF MCNext, Windows, Reporting
    <3>2. SharedInv
      BY <2>2
    <3>3. UNCHANGED others => SharedInv'
      BY <3>2 DEF others, SharedInv, SharedTyped, Named, Stored, Read, Shared!PayloadTold
    <3> QED
      BY <3>1, <3>2, <3>3, SharedNext
  <2>3. CASE part # "memory"
    BY <2>1, <2>3
  <2> QED
    BY <2>2, <2>3
<1>3. I => PayloadTold
  BY DEF PayloadTold, SharedInv, Read
<1> QED
  BY <1>1, <1>2, <1>3, PTL DEF MCSpec
-------------------------------------------------------------------------------
(***************************************************************************)
(* The binary log.                                                         *)
(***************************************************************************)
Torn(r) == [r EXCEPT !.bytes = @ - 1]
Timed == {Kept!TimeRecord("START"), Kept!TimeRecord("STOP")}
WholeRecords == {Kept!RecordOf(e) : e \in Events} \cup Timed
LogRecords == WholeRecords \cup {Torn(r) : r \in WholeRecords} \cup {Kept!Header}
LogLines == {Kept!Line(e) : e \in Events} \cup {[type |-> "START"], [type |-> "STOP"]}

\* A record is read back as the line of its event.
ReadBack(r, line) ==
  /\ r \in WholeRecords
  /\ r.type # "header" /\ r.bytes = r.length
  /\ Kept!Convertible(r)
  /\ Kept!ConvertRecord(r) = line

\* Behind the header there is a record for each line, and after them at most one that
\* is not whole.
Matching(f, ls) ==
  /\ f \in Seq(LogRecords) /\ ls \in Seq(LogLines)
  /\ Len(f) \in {Len(ls) + 1, Len(ls) + 2}
  /\ f[1] = Kept!Header
  /\ \A i \in 1..Len(ls) : ReadBack(f[i + 1], ls[i])
  /\ Len(f) = Len(ls) + 2 => f[Len(f)].bytes # f[Len(f)].length

LogInv(file, flushed, lines, open, logEmpty, started, runs) ==
  /\ runs \in Nat /\ open \in BOOLEAN /\ logEmpty \in BOOLEAN /\ started \in BOOLEAN
  /\ flushed \in 0..Len(file)
  /\ Flush => flushed = Len(file)
  /\ file = << >> => lines = << >>
  /\ file # << >> => Matching(file, lines) /\ flushed >= 1
  /\ Len(file) = Len(lines) + 2 => ~open /\ ~(runs < MaxRuns)
  /\ open => (logEmpty <=> file = << >>)
  /\ open /\ started => ~logEmpty

LEMMA LineOfRecord ==
  ASSUME NEW e \in Events
  PROVE  ReadBack(Kept!RecordOf(e), Kept!Line(e)) /\ Kept!Line(e) \in LogLines
<1> DEFINE r == Kept!RecordOf(e)
<1>1. Recordable(e)
  BY EventAssumption
<1>2. r \in WholeRecords /\ Kept!Line(e) \in LogLines
  BY DEF WholeRecords, LogLines
<1>3. CASE e.type \in Kept!TcpEvents
  <2>1. r = Kept!TcpRecord(e)
    BY <1>3 DEF Kept!RecordOf, Kept!TcpEvents
  <2>2. r.type = e.type /\ r.bytes = r.length /\ r.length <= Kept!RECORD_MAX
    BY <1>1, <1>3, <2>1 DEF Kept!TcpRecord, Kept!Record, Recordable
  <2>3. r.fields = [addr |-> e.addr, port |-> e.port, flow |-> e.flow, host |-> e.host]
    BY <2>1 DEF Kept!TcpRecord, Kept!Record
  <2>4. r.type \notin {"header", "RERR"}
    BY <1>3, <2>2 DEF Kept!TcpEvents
  <2>5. Kept!ConvertRecord(r) = Kept!ConvertTcp(r)
    BY <1>3, <2>2 DEF Kept!ConvertRecord, Kept!TcpEvents
  <2>6. CASE e.type = "ACCEPT"
    BY <1>2, <2>2, <2>3, <2>4, <2>5, <2>6
    DEF Kept!ConvertTcp, Kept!Line, Kept!Ends, ReadBack, Kept!Convertible
  <2>7. CASE e.type \in Kept!Ends
    <3>1. (IF e.client THEN e.flow ELSE 0) = e.flow
      BY <1>1, <2>7 DEF Recordable
    <3> QED
      BY <1>2, <2>2, <2>3, <2>4, <2>5, <2>7, <3>1
      DEF Kept!ConvertTcp, Kept!Line, Kept!Ends, ReadBack, Kept!Convertible
  <2>8. CASE e.type \in {"ON", "CONNECT"}
    BY <1>2, <2>2, <2>3, <2>4, <2>5, <2>8
    DEF Kept!ConvertTcp, Kept!Line, Kept!Ends, ReadBack, Kept!Convertible
  <2> QED
    BY <1>3, <2>6, <2>7, <2>8 DEF Kept!TcpEvents, Kept!Ends
<1>4. CASE e.type = "SEND"
  <2>1. r = Kept!SendRecord(e)
    BY <1>4 DEF Kept!RecordOf, Kept!TcpEvents
  <2>2. r.length <= Kept!RECORD_MAX
    BY <1>1 DEF Recordable
  <2>3. (IF e.hostFits THEN e.host ELSE 0) = e.host
    BY <1>1, <1>4 DEF Recordable
  <2>4. /\ r.type = "SEND" /\ r.bytes = r.length
        /\ r.fields = [flow |-> e.flow, protocol |-> e.protocol, size |-> e.size, host |-> e.host]
    BY <1>4, <2>1, <2>3 DEF Kept!SendRecord, Kept!Record
  <2> QED
    BY <1>2, <1>4, <2>2, <2>4
    DEF Kept!ConvertRecord, Kept!Line, Kept!Ends, Kept!TcpEvents, ReadBack, Kept!Convertible
<1>5. CASE e.type = "RECV"
  <2>1. r = Kept!RecvRecord(e)
    BY <1>5 DEF Kept!RecordOf, Kept!TcpEvents
  <2>2. r.length <= Kept!RECORD_MAX
    BY <1>1 DEF Recordable
  <2>3. /\ r.type = "RECV" /\ r.bytes = r.length
        /\ r.fields = [addr |-> e.addr, length |-> e.length]
    BY <1>5, <2>1 DEF Kept!RecvRecord, Kept!Record
  <2> QED
    BY <1>2, <1>5, <2>2, <2>3
    DEF Kept!ConvertRecord, Kept!Line, Kept!Ends, Kept!TcpEvents, ReadBack, Kept!Convertible
<1>6. CASE e.type \in {"LISTEN", "IGNORE", "JOIN", "LEAVE"}
  <2>1. r = Kept!DrecRecord(e)
    BY <1>6 DEF Kept!RecordOf, Kept!TcpEvents
  <2>2. r.length <= Kept!RECORD_MAX /\ r.type = e.type /\ r.bytes = r.length
    BY <1>1, <1>6, <2>1 DEF Recordable, Kept!DrecRecord, Kept!Record
  <2>3. Kept!Convertible(r)
    BY <1>6, <2>2 DEF Kept!Convertible
  <2>4. Kept!ConvertRecord(r) = Kept!ConvertDrec(r)
    BY <1>6, <2>2 DEF Kept!ConvertRecord, Kept!TcpEvents
  <2>5. CASE e.type \in {"LISTEN", "IGNORE"}
    <3>1. r.fields = [protocol |-> e.protocol, port |-> e.port]
      BY <2>1, <2>5 DEF Kept!DrecRecord, Kept!Record
    <3> QED
      BY <1>2, <2>2, <2>3, <2>4, <2>5, <3>1 DEF Kept!ConvertDrec, Kept!Line, Kept!Ends, ReadBack
  <2>6. CASE e.type \in {"JOIN", "LEAVE"}
    <3>1. r.fields = [addr |-> e.addr, port |-> e.port, iface |-> e.iface] /\ e.source = 0
      BY <1>1, <2>1, <2>6 DEF Kept!DrecRecord, Kept!Record, Recordable
    <3> QED
      BY <1>2, <2>2, <2>3, <2>4, <2>6, <3>1 DEF Kept!ConvertDrec, Kept!Line, Kept!Ends, ReadBack
  <2> QED
    BY <1>6, <2>5, <2>6
<1> QED
  BY <1>1, <1>3, <1>4, <1>5, <1>6 DEF Recordable

LEMMA TimedLine ==
  ASSUME NEW t \in {"START", "STOP"}
  PROVE  ReadBack(Kept!TimeRecord(t), [type |-> t]) /\ [type |-> t] \in LogLines
BY DEF ReadBack, WholeRecords, Timed, LogLines, Kept!TimeRecord, Kept!Record, Kept!Convertible,
       Kept!RECORD_MAX, Kept!ConvertRecord, Kept!TcpEvents

LEMMA MatchingStarts ==
  /\ Matching(<<Kept!Header>>, << >>)
  /\ Len(<<Kept!Header>>) = 1
<1>1. Kept!Header \in LogRecords
  BY DEF LogRecords
<1>2. /\ <<Kept!Header>> \in Seq(LogRecords) /\ Len(<<Kept!Header>>) = 1
      /\ <<Kept!Header>>[1] = Kept!Header
  BY <1>1
<1>3. << >> \in Seq(LogLines) /\ Len(<< >>) = 0
  OBVIOUS
<1> QED
  BY <1>2, <1>3 DEF Matching

LEMMA MatchingAppends ==
  ASSUME NEW f, NEW ls, Matching(f, ls), Len(f) = Len(ls) + 1,
         NEW r, NEW l \in LogLines, ReadBack(r, l)
  PROVE  /\ Matching(Append(f, r), Append(ls, l))
         /\ Len(Append(f, r)) = Len(f) + 1 /\ Len(Append(ls, l)) = Len(ls) + 1
<1> DEFINE g == Append(f, r)
           ms == Append(ls, l)
<1>1. r \in LogRecords
  BY DEF ReadBack, LogRecords
<1>2. f \in Seq(LogRecords) /\ ls \in Seq(LogLines)
  BY DEF Matching
<1>3. /\ g \in Seq(LogRecords) /\ Len(g) = Len(f) + 1
      /\ \A i \in 1..Len(g) : g[i] = IF i = Len(f) + 1 THEN r ELSE f[i]
  BY <1>1, <1>2
<1>4. /\ ms \in Seq(LogLines) /\ Len(ms) = Len(ls) + 1
      /\ \A i \in 1..Len(ms) : ms[i] = IF i = Len(ls) + 1 THEN l ELSE ls[i]
  BY <1>2
<1> HIDE DEF g, ms
<1>5. Len(f) \in Nat /\ Len(ls) \in Nat
  BY <1>2
<1>6. g[1] = Kept!Header
  BY <1>3, <1>5 DEF Matching
<1>7. ASSUME NEW i \in 1..Len(ms)
      PROVE  ReadBack(g[i + 1], ms[i])
  <2>1. g[i + 1] = (IF i = Len(ls) + 1 THEN r ELSE f[i + 1])
    BY <1>3, <1>4, <1>5
  <2> QED
    BY <1>4, <1>5, <2>1 DEF Matching
<1>8. Len(g) \in {Len(ms) + 1, Len(ms) + 2} /\ Len(g) # Len(ms) + 2
  BY <1>3, <1>4, <1>5
<1>9. Matching(g, ms)
  BY <1>3, <1>4, <1>6, <1>7, <1>8 DEF Matching
<1> QED
  BY <1>3, <1>4, <1>9 DEF g, ms

\* The records that have lines, among the first n.
LEMMA LinesCounted ==
  ASSUME NEW f, NEW ls, Matching(f, ls), Len(f) = Len(ls) + 1, NEW n \in 1..Len(f)
  PROVE  Cardinality({i \in 1..n : Kept!HasLine(f[i])}) = n - 1
<1>1. f \in Seq(LogRecords) /\ ls \in Seq(LogLines) /\ Len(f) \in Nat /\ Len(ls) \in Nat
  BY DEF Matching
<1>2. ~Kept!HasLine(f[1])
  BY DEF Matching, Kept!HasLine, Kept!Header, Kept!Record
<1>3. ASSUME NEW i \in 2..n PROVE Kept!HasLine(f[i])
  <2>1. i - 1 \in 1..Len(ls) /\ (i - 1) + 1 = i
    BY <1>1
  <2> QED
    BY <2>1 DEF Matching, ReadBack, Kept!HasLine
<1>4. {i \in 1..n : Kept!HasLine(f[i])} = 2..n
  BY <1>1, <1>2, <1>3
<1>5. Cardinality(2..n) = n - 1
  BY <1>1, FS_Interval
<1> QED
  BY <1>4, <1>5

LEMMA MatchingCut ==
  ASSUME NEW f, NEW ls, Matching(f, ls), Len(f) = Len(ls) + 1, NEW n \in 1..Len(f)
  PROVE  /\ Matching(SubSeq(f, 1, n), SubSeq(ls, 1, n - 1))
         /\ Len(SubSeq(f, 1, n)) = n /\ Len(SubSeq(ls, 1, n - 1)) = n - 1
<1> DEFINE g == SubSeq(f, 1, n)
           ms == SubSeq(ls, 1, n - 1)
<1>1. f \in Seq(LogRecords) /\ ls \in Seq(LogLines) /\ Len(f) \in Nat /\ Len(ls) \in Nat
  BY DEF Matching
<1>2. g \in Seq(LogRecords) /\ Len(g) = n /\ \A i \in 1..n : g[i] = f[i]
  BY <1>1
<1>3. ms \in Seq(LogLines) /\ Len(ms) = n - 1 /\ \A i \in 1..n - 1 : ms[i] = ls[i]
  BY <1>1
<1> HIDE DEF g, ms
<1>4. g[1] = Kept!Header
  BY <1>2 DEF Matching
<1>5. ASSUME NEW i \in 1..Len(ms)
      PROVE  ReadBack(g[i + 1], ms[i])
  BY <1>1, <1>2, <1>3 DEF Matching
<1>6. Len(g) \in {Len(ms) + 1, Len(ms) + 2} /\ Len(g) # Len(ms) + 2
  BY <1>2, <1>3
<1>7. Matching(g, ms)
  BY <1>2, <1>3, <1>4, <1>5, <1>6 DEF Matching
<1> QED
  BY <1>2, <1>3, <1>7 DEF g, ms

\* A record of which only a part was written.
LEMMA MatchingTorn ==
  ASSUME NEW f, NEW ls, Matching(f, ls), Len(f) = Len(ls) + 1,
         NEW r, NEW l, ReadBack(r, l), r.length \in Int
  PROVE  /\ Matching(f \o <<Torn(r)>>, ls)
         /\ Len(f \o <<Torn(r)>>) = Len(f) + 1
<1> DEFINE g == f \o <<Torn(r)>>
<1>1. Torn(r) \in LogRecords
  BY DEF ReadBack, LogRecords
<1>2. f \in Seq(LogRecords) /\ ls \in Seq(LogLines) /\ Len(f) \in Nat /\ Len(ls) \in Nat
  BY DEF Matching
<1>3. /\ g \in Seq(LogRecords) /\ Len(g) = Len(f) + 1
      /\ \A i \in 1..Len(g) : g[i] = IF i = Len(f) + 1 THEN Torn(r) ELSE f[i]
  BY <1>1, <1>2
<1>4. Torn(r).bytes # Torn(r).length
  <2>1. r = [type |-> r.type, length |-> r.length, bytes |-> r.bytes, fields |-> r.fields]
    BY DEF ReadBack, WholeRecords, Timed, Kept!TimeRecord, Kept!Record, Kept!RecordOf,
           Kept!TcpRecord, Kept!SendRecord, Kept!RecvRecord, Kept!RerrRecord, Kept!DrecRecord
  <2>2. Torn(r).bytes = r.bytes - 1 /\ Torn(r).length = r.length
    BY <2>1 DEF Torn
  <2> QED
    BY <2>2 DEF ReadBack
<1> HIDE DEF g
<1>5. g[1] = Kept!Header /\ g[Len(g)] = Torn(r)
  BY <1>2, <1>3 DEF Matching
<1>6. \A i \in 1..Len(ls) : g[i + 1] = f[i + 1]
  BY <1>2, <1>3
<1>7. Matching(g, ls)
  BY <1>2, <1>3, <1>4, <1>5, <1>6 DEF Matching
<1> QED
  BY <1>3, <1>7 DEF g

LEMMA LengthIsNumber ==
  ASSUME NEW r \in WholeRecords
  PROVE  r.length \in Int
<1>1. CASE r \in Timed
  BY <1>1 DEF Timed, Kept!TimeRecord, Kept!Record
<1>2. CASE \E e \in Events : r = Kept!RecordOf(e)
  BY <1>2, EventAssumption DEF Recordable, Kept!RECORD_MAX
<1> QED
  BY <1>1, <1>2 DEF WholeRecords

\* The conversion stops at the record that is not whole, and gives all lines.
LEMMA Converts ==
  ASSUME NEW f, NEW ls, Matching(f, ls)
  PROVE  Kept!ConvertBinaryLog(f) = ls
<1> DEFINE records == Tail(f)
           bad == {i \in DOMAIN records : ~Kept!Convertible(records[i])}
           good == IF bad = {} THEN Len(records)
                   ELSE (CHOOSE i \in bad : \A j \in bad : i <= j) - 1
<1>1. f \in Seq(LogRecords) /\ ls \in Seq(LogLines) /\ Len(f) \in Nat /\ Len(ls) \in Nat
  BY DEF Matching
<1>2. Len(f) \in {Len(ls) + 1, Len(ls) + 2} /\ f # << >> /\ Head(f) = Kept!Header
  BY <1>1 DEF Matching
<1>3. /\ DOMAIN records = 1..(Len(f) - 1) /\ Len(records) = Len(f) - 1
      /\ \A i \in 1..(Len(f) - 1) : records[i] = f[i + 1]
  BY <1>1, <1>2
<1>4. Kept!ConvertBinaryLog(f) = [i \in 1..good |-> Kept!ConvertRecord(records[i])]
  BY <1>2 DEF Kept!ConvertBinaryLog
<1> HIDE DEF records
<1>5. \A i \in 1..Len(ls) : /\ Kept!Convertible(records[i])
                            /\ Kept!ConvertRecord(records[i]) = ls[i]
  BY <1>1, <1>2, <1>3 DEF Matching, ReadBack
<1>6. good = Len(ls)
  <2>1. CASE Len(f) = Len(ls) + 1
    <3>1. bad = {}
      BY <1>1, <1>3, <1>5, <2>1
    <3> QED
      BY <1>1, <1>3, <2>1, <3>1
  <2>2. CASE Len(f) = Len(ls) + 2
    <3>1. ~Kept!Convertible(records[Len(ls) + 1])
      BY <1>1, <1>3, <2>2 DEF Matching, Kept!Convertible
    <3>2. bad = {Len(ls) + 1}
      <4>1. \A i \in 1..(Len(f) - 1) : i \in 1..Len(ls) \/ i = Len(ls) + 1
        BY <1>1, <2>2
      <4>2. Len(ls) + 1 \in DOMAIN records
        BY <1>1, <1>3, <2>2
      <4> QED
        BY <1>3, <1>5, <3>1, <4>1, <4>2
    <3>3. (CHOOSE i \in bad : \A j \in bad : i <= j) = Len(ls) + 1
      BY <1>1, <3>2
    <3> QED
      BY <1>1, <3>2, <3>3
  <2> QED
    BY <1>2, <2>1, <2>2
<1> HIDE DEF good
<1>7. [i \in 1..good |-> Kept!ConvertRecord(records[i])] = [i \in 1..Len(ls) |-> ls[i]]
  BY <1>5, <1>6
<1>8. ls = [i \in 1..Len(ls) |-> ls[i]]
  BY <1>1
<1> QED
  BY <1>4, <1>7, <1>8

-------------------------------------------------------------------------------
(* Runs of mgen on one log.                                                *)

\* Records are flushed one by one, or mgen runs once; a log is opened before it starts.
Careful == ~OtherOrders /\ (Flush \/ MaxRuns = 1)

LogState == LogInv(s1, s2, s3, s4, s5, s6, s7)

LEMMA LogFacts ==
  ASSUME LogState
  PROVE  /\ s7 \in Nat /\ s4 \in BOOLEAN /\ s5 \in BOOLEAN /\ s6 \in BOOLEAN
         /\ s1 = << >> => s3 = << >> /\ s2 = 0
         /\ s1 # << >> => Matching(s1, s3) /\ s2 >= 1
         /\ Len(s1) \in Nat /\ Len(s3) \in Nat /\ s2 \in 0..Len(s1)
         /\ s1 \in Seq(LogRecords) /\ s3 \in Seq(LogLines)
         /\ s4 \/ s7 < MaxRuns => Len(s1) # Len(s3) + 2
<1>1. CASE s1 = << >>
  BY <1>1 DEF LogState, LogInv
<1>2. CASE s1 # << >>
  BY <1>2 DEF LogState, LogInv, Matching
<1> QED
  BY <1>1, <1>2

LEMMA LogOpened ==
  ASSUME LogState, Careful, NEW append \in BOOLEAN, Kept!OpenLog(append)
  PROVE  LogState'
<1>1. CASE append
  BY <1>1, LogFacts DEF LogState, LogInv, Kept!OpenLog, Kept!Empty, Careful
<1>2. CASE ~append
  <2>1. s1' = << >> /\ s2' = 0 /\ s3' = << >> /\ s5' = TRUE
    BY <1>2 DEF Kept!OpenLog, Kept!Empty
  <2>2. Len(s1') = 0 /\ Len(s3') = 0
    BY <2>1
  <2> QED
    BY <1>2, <2>1, <2>2, LogFacts DEF LogState, LogInv, Kept!OpenLog, Careful
<1> QED
  BY <1>1, <1>2

\* One record with its line at the end.
LEMMA LogGrows ==
  ASSUME LogState, s4, s1 # << >>, NEW r, NEW l \in LogLines, ReadBack(r, l),
         s1' = Append(s1, r), s3' = Append(s3, l)
  PROVE  /\ Matching(s1', s3') /\ s1' # << >>
         /\ Len(s1') = Len(s1) + 1 /\ Len(s1') # Len(s3') + 2
<1>1. Matching(s1, s3) /\ Len(s1) = Len(s3) + 1
  BY LogFacts DEF Matching
<1>2. /\ Matching(s1', s3')
      /\ Len(s1') = Len(s1) + 1 /\ Len(s3') = Len(s3) + 1
  BY <1>1, MatchingAppends
<1> QED
  BY <1>1, <1>2, LogFacts

LEMMA LogStarts ==
  ASSUME LogState, Careful, Kept!Start
  PROVE  LogState'
<1>1. CASE ~s4
  BY <1>1 DEF LogState, LogInv, Kept!Start
<1>2. CASE s4
  <2> DEFINE r == Kept!TimeRecord("START")
             l == [type |-> "START"]
  <2>1. /\ s1' = s1 \o (IF s5 THEN <<Kept!Header>> ELSE << >>) \o <<r>>
        /\ s2' = Len(s1') /\ s3' = Append(s3, l) /\ s5' = FALSE
        /\ s6' = TRUE /\ s4' = s4 /\ s7' = s7
    BY <1>2 DEF Kept!Start
  <2>2. ReadBack(r, l) /\ l \in LogLines
    BY TimedLine
  <2>3. r \in LogRecords /\ Kept!Header \in LogRecords
    BY <2>2 DEF ReadBack, LogRecords
  <2>6. \A t \in Seq(LogRecords) : t \o <<r>> = Append(t, r) /\ t \o << >> = t /\ << >> \o t = t
    BY <2>3
  <2> HIDE DEF r, l
  <2>4. Matching(s1', s3') /\ s1' # << >> /\ Len(s1') \in Nat /\ Len(s1') # Len(s3') + 2
    <3>1. CASE s1 = << >>
      <4>1. s5 /\ s3 = << >>
        BY <1>2, <3>1 DEF LogState, LogInv
      <4>2. s1' = Append(<<Kept!Header>>, r)
        <5>1. << >> \o <<Kept!Header>> = <<Kept!Header>> /\ <<Kept!Header>> \in Seq(LogRecords)
          BY <2>3
        <5> QED
          BY <2>1, <2>6, <3>1, <4>1, <5>1
      <4> DEFINE f == <<Kept!Header>>
                 ls == << >>
      <4>3. Matching(f, ls) /\ Len(f) = Len(ls) + 1 /\ Len(f) = 1 /\ Len(ls) = 0
        BY MatchingStarts
      <4>4. s1' = Append(f, r) /\ s3' = Append(ls, l)
        BY <2>1, <4>1, <4>2
      <4> HIDE DEF f, ls
      <4>5. /\ Matching(Append(f, r), Append(ls, l))
            /\ Len(Append(f, r)) = Len(f) + 1 /\ Len(Append(ls, l)) = Len(ls) + 1
        BY <2>2, <4>3, MatchingAppends
      <4>6. Matching(s1', s3') /\ Len(s1') = 2 /\ Len(s3') = 1
        BY <4>3, <4>4, <4>5
      <4> QED
        BY <4>6
    <3>2. CASE s1 # << >>
      <4>1. ~s5
        BY <1>2, <3>2 DEF LogState, LogInv
      <4>2. s1' = Append(s1, r)
        BY <2>1, <2>6, <4>1, LogFacts
      <4>3. s3' = Append(s3, l)
        BY <2>1
      <4>4. Matching(s1', s3') /\ s1' # << >> /\ Len(s1') = Len(s1) + 1 /\ Len(s1') # Len(s3') + 2
        BY <1>2, <2>2, <3>2, <4>2, <4>3, LogGrows
      <4> QED
        BY <4>4, LogFacts
    <3> QED
      BY <3>1, <3>2
  <2>5. Len(s1') >= 1
    BY <2>4 DEF Matching
  <2>7. s2' \in 0..Len(s1') /\ s2' >= 1
    BY <2>1, <2>4, <2>5
  <2> QED
    BY <1>2, <2>1, <2>4, <2>5, <2>7, LogFacts DEF LogState, LogInv
<1> QED
  BY <1>1, <1>2, LogFacts

LEMMA LogEvents ==
  ASSUME LogState, Careful, NEW e \in Events, Kept!LogEvent(e)
  PROVE  LogState'
<1> DEFINE r == Kept!RecordOf(e)
           l == Kept!Line(e)
<1>1. /\ s6 /\ s4 /\ s1' = s1 \o <<r>> /\ s3' = Append(s3, l)
      /\ s2' = IF Flush THEN Len(s1') ELSE s2
      /\ UNCHANGED <<s4, s5, s6, s7>>
  BY DEF Kept!LogEvent, Kept!Write, Careful
<1>2. ReadBack(r, l) /\ l \in LogLines
  BY LineOfRecord
<1>3. r \in LogRecords
  BY <1>2 DEF ReadBack, LogRecords
<1> HIDE DEF r, l
<1>4. s1' = Append(s1, r)
  BY <1>1, <1>3, LogFacts
<1>5. s1 # << >>
  BY <1>1 DEF LogState, LogInv
<1>6. /\ Matching(s1', s3') /\ s1' # << >>
      /\ Len(s1') = Len(s1) + 1 /\ Len(s1') # Len(s3') + 2
  BY <1>1, <1>2, <1>4, <1>5, LogGrows
<1>7. s2' \in 0..Len(s1') /\ s2' >= 1 /\ (Flush => s2' = Len(s1'))
  BY <1>1, <1>5, <1>6, LogFacts
<1> QED
  BY <1>1, <1>5, <1>6, <1>7, LogFacts DEF LogState, LogInv

LEMMA LogClosed ==
  ASSUME s7' \in Nat, s4' = FALSE, s5' = TRUE, s6' = FALSE, s2' = Len(s1'), s2' \in 0..Len(s1'),
         s1' = << >> => s3' = << >>,
         s1' # << >> => Matching(s1', s3') /\ s2' >= 1,
         Len(s1') = Len(s3') + 2 => ~(s7' < MaxRuns)
  PROVE  LogState'
<1>1. s7' \in Nat /\ s4' \in BOOLEAN /\ s5' \in BOOLEAN /\ s6' \in BOOLEAN
  OBVIOUS
<1>2. Len(s1') = Len(s3') + 2 => ~s4' /\ ~(s7' < MaxRuns)
  OBVIOUS
<1>3. s4' => (s5' <=> s1' = << >>)
  OBVIOUS
<1>4. s4' /\ s6' => ~s5'
  OBVIOUS
<1> QED
  BY <1>1, <1>2, <1>3, <1>4 DEF LogState, LogInv

LEMMA LogStops ==
  ASSUME LogState, Careful, Kept!Stop
  PROVE  LogState'
<1>1. s7' = s7 + 1 /\ s4' = FALSE /\ s5' = TRUE /\ s6' = FALSE /\ s2' = Len(s1') /\ s7 < MaxRuns
  BY DEF Kept!Stop
<1>9. s7' \in Nat
  BY <1>1, LogFacts
<1>2. CASE s6 /\ s4
  <2> DEFINE r == Kept!TimeRecord("STOP")
             l == [type |-> "STOP"]
  <2>1. ReadBack(r, l) /\ l \in LogLines
    BY TimedLine
  <2>2. s1' = Append(s1, r) /\ s3' = Append(s3, l)
    BY <1>2 DEF Kept!Stop
  <2>3. s1 # << >>
    BY <1>2 DEF LogState, LogInv
  <2> HIDE DEF r, l
  <2>4. /\ Matching(s1', s3') /\ s1' # << >>
        /\ Len(s1') = Len(s1) + 1 /\ Len(s1') # Len(s3') + 2
    BY <1>2, <2>1, <2>2, <2>3, LogGrows
  <2>5. s2' \in 0..Len(s1') /\ s2' >= 1
    BY <1>1, <2>3, <2>4, LogFacts
  <2> QED
    BY <1>1, <2>4, <2>5, <1>9, LogClosed
<1>3. CASE ~(s6 /\ s4)
  <2>1. s1' = s1 /\ s3' = s3
    BY <1>3 DEF Kept!Stop
  <2>2. s2' \in 0..Len(s1') /\ (s1' # << >> => s2' >= 1)
    BY <1>1, <2>1, LogFacts
  <2>3. Len(s1') # Len(s3') + 2
    BY <1>1, <2>1, LogFacts
  <2>4. (s1' = << >> => s3' = << >>) /\ (s1' # << >> => Matching(s1', s3') /\ s2' >= 1)
    BY <2>1, <2>2, LogFacts
  <2> QED
    BY <1>1, <2>2, <2>3, <2>4, <1>9, LogClosed
<1> QED
  BY <1>2, <1>3

LEMMA LogKilled ==
  ASSUME LogState, Careful, Kept!Kill
  PROVE  LogState'
<1>1. s7' = s7 + 1 /\ s4' = FALSE /\ s5' = TRUE /\ s6' = FALSE /\ s2' = Len(s1') /\ s7 < MaxRuns
  BY DEF Kept!Kill
<1>9. s7' \in Nat
  BY <1>1, LogFacts
<1>2. PICK n \in s2..Len(s1), torn \in BOOLEAN :
        /\ torn => n < Len(s1)
        /\ s1' = SubSeq(s1, 1, n) \o (IF torn THEN <<Torn(s1[n + 1])>> ELSE << >>)
        /\ s3' = SubSeq(s3, 1, Cardinality({i \in 1..n : Kept!HasLine(s1[i])}))
  BY DEF Kept!Kill, Torn, Kept!Cardinality, Cardinality
<1>3. CASE s1 = << >>
  <2>1. n = 0 /\ ~torn /\ s3 = << >> /\ Len(s1) = 0
    BY <1>2, <1>3, LogFacts
  <2>2. s1' = << >> /\ s3' = << >>
    <3>1. {i \in 1..n : Kept!HasLine(s1[i])} = {}
      BY <2>1
    <3>2. Cardinality({i \in 1..n : Kept!HasLine(s1[i])}) = 0
      BY <3>1, FS_EmptySet
    <3> QED
      BY <1>2, <1>3, <2>1, <3>2
  <2>3. s2' = 0 /\ Len(s1') = 0 /\ Len(s3') = 0
    BY <1>1, <2>2
  <2>4. s2' \in 0..Len(s1') /\ Len(s1') # Len(s3') + 2
    BY <2>3
  <2> QED
    BY <1>1, <2>2, <2>3, <2>4, <1>9, LogClosed
<1>4. CASE s1 # << >>
  <2>1. Matching(s1, s3) /\ Len(s1) = Len(s3) + 1 /\ n \in 1..Len(s1)
    BY <1>1, <1>2, <1>4, LogFacts DEF Matching
  <2>2. s3' = SubSeq(s3, 1, n - 1)
    BY <1>2, <2>1, LinesCounted
  <2> DEFINE g == SubSeq(s1, 1, n)
             ms == SubSeq(s3, 1, n - 1)
  <2>3. Matching(g, ms) /\ Len(g) = n /\ Len(ms) = n - 1
    BY <2>1, MatchingCut
  <2> HIDE DEF g, ms
  <2>4. /\ Matching(s1', s3')
        /\ Len(s1') = (IF torn THEN n + 1 ELSE n)
        /\ Len(s3') = n - 1
    <3>1. CASE torn
      <4>1. ReadBack(s1[n + 1], s3[n])
        BY <1>2, <2>1, <3>1, LogFacts DEF Matching
      <4>2. s1[n + 1].length \in Int
        BY <4>1, LengthIsNumber DEF ReadBack
      <4>3. Matching(g \o <<Torn(s1[n + 1])>>, ms) /\ Len(g \o <<Torn(s1[n + 1])>>) = Len(g) + 1
        BY <2>1, <2>3, <4>1, <4>2, MatchingTorn
      <4>4. s1' = g \o <<Torn(s1[n + 1])>> /\ s3' = ms
        BY <1>2, <2>2, <3>1 DEF g, ms
      <4> QED
        BY <2>3, <3>1, <4>3, <4>4
    <3>2. CASE ~torn
      <4>1. s1' = g \o << >> /\ s3' = ms
        BY <1>2, <2>2, <3>2 DEF g, ms
      <4>2. s1' = g
        BY <2>3, <4>1 DEF Matching
      <4> QED
        BY <2>3, <3>2, <4>1, <4>2
    <3> QED
      BY <3>1, <3>2
  <2>5. s1' # << >> /\ s2' \in 0..Len(s1') /\ s2' >= 1
    <3>1. Len(s1') \in Nat /\ Len(s1') >= 1
      BY <2>1, <2>4, LogFacts
    <3>2. s1' # << >>
      BY <3>1
    <3> QED
      BY <1>1, <3>1, <3>2
  <2>6. Len(s1') = Len(s3') + 2 => ~(s7' < MaxRuns)
    <3>1. ASSUME torn PROVE MaxRuns = 1
      <4>1. ~Flush
        BY <1>2, <3>1, LogFacts DEF LogState, LogInv
      <4> QED
        BY <4>1 DEF Careful
    <3>2. Len(s1') = Len(s3') + 2 => torn
      BY <2>1, <2>4, LogFacts
    <3> QED
      BY <1>1, <3>1, <3>2, LogFacts
  <2> QED
    BY <1>1, <2>4, <2>5, <2>6, <1>9, LogClosed
<1> QED
  BY <1>3, <1>4

LEMMA LogNext ==
  ASSUME LogState, Careful, Kept!Next
  PROVE  LogState'
BY LogOpened, LogStarts, LogEvents, LogStops, LogKilled DEF Kept!Next

\* OpenLog, Mgen::Start, LogEvent and ConvertBinaryLog: whatever runs of mgen append to
\* a binary log, and wherever they are killed, its conversion has the lines of the text
\* log, if its records are flushed, or it is that of one run that may end anywhere.
THEOREM LogRecreated == ASSUME Careful PROVE MCSpec => []Recreated
<1> DEFINE all == <<part, vars, reporter, others>>
           I == part = "log" => LogState
<1>1. MCInit => I
  <2> SUFFICES ASSUME MCInit, part = "log" PROVE LogState
    OBVIOUS
  <2>1. Kept!Init
    BY DEF MCInit
  <2>2. /\ s1 = << >> /\ s3 = << >> /\ s2 = 0 /\ s7 = 0
        /\ s4 = FALSE /\ s5 = TRUE /\ s6 = FALSE
    BY <2>1 DEF Kept!Init
  <2>3. Len(s1) = 0 /\ Len(s3) = 0
    BY <2>2
  <2>4. s2 \in 0..Len(s1) /\ s2 = Len(s1)
    BY <2>2, <2>3
  <2>5. s7 \in Nat /\ s4 \in BOOLEAN /\ s5 \in BOOLEAN /\ s6 \in BOOLEAN
    BY <2>2
  <2>6. Len(s1) # Len(s3) + 2
    BY <2>3
  <2>7. s4 => (s5 <=> s1 = << >>)
    BY <2>2
  <2>8. s4 /\ s6 => ~s5
    BY <2>2
  <2> QED
    BY <2>2, <2>4, <2>5, <2>6, <2>7, <2>8 DEF LogState, LogInv
<1>2. I /\ [MCNext]_all => I'
  <2> SUFFICES ASSUME I, [MCNext]_all PROVE I'
    OBVIOUS
  <2>1. part' = part
    BY DEF MCNext, Windows, Reporting
  <2>2. CASE part = "log"
    <3>1. Kept!Next \/ UNCHANGED others
      BY <2>2 DEF MCNext, Windows, Reporting
    <3>2. LogState
      BY <2>2
    <3>3. UNCHANGED others => LogState'
      BY <3>2 DEF others, LogState
    <3> QED
      BY <3>1, <3>2, <3>3, LogNext
  <2>3. CASE part # "log"
    BY <2>1, <2>3
  <2> QED
    BY <2>2, <2>3
<1>3. I => Recreated
  <2> SUFFICES ASSUME LogState PROVE Kept!Recreated
    BY DEF Recreated
  <2>1. CASE s1 = << >>
    BY <2>1, LogFacts DEF Kept!Recreated, Kept!ConvertBinaryLog
  <2>2. CASE s1 # << >>
    BY <2>2, LogFacts, Converts DEF Kept!Recreated
  <2> QED
    BY <2>1, <2>2
<1> QED
  BY <1>1, <1>2, <1>3, PTL DEF MCSpec
-------------------------------------------------------------------------------
(***************************************************************************)
(* Commands to flows.                                                      *)
(***************************************************************************)

\* Two masks of 1 + 2 * n bytes each, in the room there is.
Sized(cmd) ==
  /\ cmd = [length |-> cmd.length, bytes |-> cmd.bytes]
  /\ cmd.length \in Nat /\ cmd.length <= BufferRoom
  /\ cmd.bytes \in [0..(BufferRoom - 1) -> SUBSET (0..7)]
  /\ \/ cmd.length = 2
     \/ \E n \in Nat : cmd.length = 4 + 4 * n

Says(cmd, statuses) == \A i \in Ids : Carried!GetStatus(cmd, i) = statuses[i]

LEMMA GrowthIs ==
  ASSUME NEW i \in Nat
  PROVE  /\ Carried!Growth(i) \in Nat
         /\ \A n \in Nat : Carried!Growth(i) <= n <=> i <= 8 + 16 * n
<1> DEFINE a == 2 * i - 17
           q == a \div 32
<1>1. CASE 2 * i <= 16
  <2>1. Carried!Growth(i) = 0
    BY <1>1 DEF Carried!Growth
  <2> QED
    BY <1>1, <2>1
<1>2. CASE 2 * i > 16
  <2>1. a \in Nat /\ a >= 1
    BY <1>2
  <2>2. q \in Int /\ 32 * q <= a /\ a < 32 * q + 32
    BY <2>1
  <2>3. Carried!Growth(i) = q + 1
    BY <1>2 DEF Carried!Growth
  <2>4. a = 2 * i - 17
    OBVIOUS
  <2> HIDE DEF q, a
  <2> QED
    BY <2>1, <2>2, <2>3, <2>4
<1> QED
  BY <1>1, <1>2

LEMMA NeededIs ==
  ASSUME NEW i \in Nat
  PROVE  /\ Carried!LengthNeeded(i) = 4 + 4 * Carried!Growth(i)
         /\ Carried!LengthNeeded(i) \in Nat
BY GrowthIs DEF Carried!LengthNeeded, Carried!OFFSET_BITS

LEMMA IdFits ==
  ASSUME NEW i \in Ids
  PROVE  i \in Nat /\ i >= 1 /\ Carried!LengthNeeded(i) <= BufferRoom
<1>1. i \in 1..MAX_FLOW /\ MAX_FLOW \in Nat /\ BufferRoom \in Nat
      /\ Carried!LengthNeeded(MAX_FLOW) <= BufferRoom
  BY CommandAssumption
<1>2. Carried!Growth(MAX_FLOW) \in Nat /\ MAX_FLOW <= 8 + 16 * Carried!Growth(MAX_FLOW)
  BY <1>1, GrowthIs
<1>3. Carried!Growth(i) <= Carried!Growth(MAX_FLOW) /\ Carried!Growth(i) \in Nat
  BY <1>1, <1>2, GrowthIs
<1> QED
  BY <1>1, <1>2, <1>3, NeededIs

\* Where the two bits of a flow are.
Low(i) == Carried!ByteOf(i)
Mask(cmd) == Carried!MaskLength(cmd.length)

LEMMA ByteIs ==
  ASSUME NEW i \in Nat, i >= 1
  PROVE  /\ Low(i) \in Nat /\ Low(i) >= 2
         /\ Carried!BitOf(i) \in 0..7
         /\ i - 1 = 8 * (Low(i) - 2) + Carried!BitOf(i)
<1> DEFINE a == i - 1
<1>1. a \in Nat
  OBVIOUS
<1> HIDE DEF a
<1>2. a \div 8 \in Nat /\ a % 8 \in 0..7 /\ a = 8 * (a \div 8) + (a % 8)
  BY <1>1
<1>3. Low(i) = 2 + a \div 8 /\ Carried!BitOf(i) = a % 8
  BY DEF a, Low, Carried!ByteOf, Carried!OFFSET_BITS, Carried!BitOf
<1> QED
  BY <1>2, <1>3 DEF a

LEMMA MaskIs ==
  ASSUME NEW cmd, Sized(cmd)
  PROVE  /\ Mask(cmd) \in Nat /\ 2 + 2 * Mask(cmd) = cmd.length
         /\ \A i \in Ids : Carried!LengthNeeded(i) <= cmd.length <=> Low(i) < 2 + Mask(cmd)
         /\ \A i \in Ids : Carried!LengthNeeded(i) <= cmd.length
                             <=> i <= Carried!GetMaxFlowId(cmd)
<1> DEFINE len == cmd.length
           m == Mask(cmd)
<1>1. len \in Nat /\ (len = 2 \/ \E n \in Nat : len = 4 + 4 * n)
  BY DEF Sized
<1>2. m = (len - 2) \div 2 /\ Carried!GetMaxFlowId(cmd) = (8 * (len - 2)) \div 2
  BY DEF Mask, Carried!MaskLength, Carried!OFFSET_BITS, Carried!GetMaxFlowId
<1> HIDE DEF len, m
<1>3. CASE len = 2
  <2>1. m = 0 /\ Carried!GetMaxFlowId(cmd) = 0
    BY <1>2, <1>3
  <2>2. ASSUME NEW i \in Ids
        PROVE  /\ ~(Carried!LengthNeeded(i) <= len) /\ ~(Low(i) < 2 + m)
               /\ ~(i <= Carried!GetMaxFlowId(cmd))
    <3>1. i \in Nat /\ i >= 1
      BY IdFits
    <3>2. Carried!LengthNeeded(i) = 4 + 4 * Carried!Growth(i) /\ Carried!Growth(i) \in Nat
      BY <3>1, NeededIs, GrowthIs
    <3>3. Low(i) \in Nat /\ Low(i) >= 2
      BY <3>1, ByteIs
    <3> QED
      BY <1>3, <2>1, <3>1, <3>2, <3>3
  <2> QED
    BY <1>3, <2>1, <2>2 DEF len, m
<1>4. ASSUME NEW n \in Nat, len = 4 + 4 * n
      PROVE  /\ m = 1 + 2 * n /\ Carried!GetMaxFlowId(cmd) = 8 + 16 * n
             /\ \A i \in Ids : /\ Carried!LengthNeeded(i) <= len <=> i <= 8 + 16 * n
                               /\ Low(i) < 2 + m <=> i <= 8 + 16 * n
  <2>1. m = 1 + 2 * n
    BY <1>2, <1>4
  <2>2. Carried!GetMaxFlowId(cmd) = 8 + 16 * n
    BY <1>2, <1>4
  <2>3. ASSUME NEW i \in Ids
        PROVE  /\ Carried!LengthNeeded(i) <= len <=> i <= 8 + 16 * n
               /\ Low(i) < 2 + m <=> i <= 8 + 16 * n
    <3>1. i \in Nat /\ i >= 1
      BY IdFits
    <3>2. Carried!Growth(i) \in Nat /\ (Carried!Growth(i) <= n <=> i <= 8 + 16 * n)
      BY <3>1, GrowthIs
    <3>3. Carried!LengthNeeded(i) = 4 + 4 * Carried!Growth(i)
      BY <3>1, NeededIs
    <3>4. Low(i) \in Nat /\ Carried!BitOf(i) \in 0..7
          /\ i - 1 = 8 * (Low(i) - 2) + Carried!BitOf(i)
      BY <3>1, ByteIs
    <3> QED
      BY <1>4, <2>1, <3>1, <3>2, <3>3, <3>4
  <2> QED
    BY <2>1, <2>2, <2>3
<1> QED
  BY <1>1, <1>3, <1>4 DEF len, m

\* Two flows never share a bit, nor does the first mask with the second.
LEMMA BitsApart ==
  ASSUME NEW i \in Ids, NEW j \in Ids, Low(i) = Low(j), Carried!BitOf(i) = Carried!BitOf(j)
  PROVE  i = j
BY IdFits, ByteIs
LEMMA StatusIs ==
  ASSUME NEW cmd, NEW i
  PROVE  Carried!GetStatus(cmd, i) =
           IF Carried!LengthNeeded(i) > cmd.length THEN 0
           ELSE (IF Carried!BitOf(i) \in cmd.bytes[Low(i)] THEN 1 ELSE 0)
                + (IF Carried!BitOf(i) \in cmd.bytes[Low(i) + Mask(cmd)] THEN 2 ELSE 0)
BY DEF Carried!GetStatus, Carried!UNCHANGED_STATUS, Low, Mask

\* MgenFlowCommand::SetStatus with memmove and memset: the masks grow, and each flow
\* keeps what the command says of it.
LEMMA GrownKeeps ==
  ASSUME NEW cmd, Sized(cmd), NEW i \in Ids, Carried!LengthNeeded(i) > cmd.length
  PROVE  LET w == Carried!Grown(cmd, Carried!LengthNeeded(i))
         IN /\ Sized(w) /\ w.length = Carried!LengthNeeded(i)
            /\ \A j \in Ids : Carried!GetStatus(w, j) = Carried!GetStatus(cmd, j)
<1> DEFINE needed == Carried!LengthNeeded(i)
           w == Carried!Grown(cmd, needed)
           old == Mask(cmd)
           new == Mask(w)
<1>1. /\ needed \in Nat /\ needed <= BufferRoom /\ cmd.length \in Nat
      /\ \E n \in Nat : needed = 4 + 4 * n
  BY IdFits, NeededIs, GrowthIs DEF Sized
<1>2. BufferRoom \in Nat
  BY CommandAssumption
<1>3. /\ w.length = needed /\ DOMAIN w.bytes = 0..(BufferRoom - 1)
      /\ w = [length |-> w.length, bytes |-> w.bytes]
      /\ w.bytes = [b \in 0..(BufferRoom - 1) |-> w.bytes[b]]
      /\ \A b \in 0..(BufferRoom - 1) :
           w.bytes[b] = IF b >= 2 + new /\ b < 2 + new + old THEN cmd.bytes[b - new + old]
                        ELSE IF b >= 2 + old /\ b < 2 + 2 * new THEN {}
                        ELSE cmd.bytes[b]
  BY DEF Sized, Carried!Grown, Mask, Carried!OFFSET_BITS
<1>4. old \in Nat /\ 2 + 2 * old = cmd.length
  BY MaskIs
<1>5. new \in Nat /\ 2 + 2 * new = needed /\ old < new
  <2>1. new = (needed - 2) \div 2
    BY <1>3 DEF Mask, Carried!MaskLength, Carried!OFFSET_BITS
  <2> HIDE DEF new, old, needed
  <2> QED
    BY <1>1, <1>4, <2>1 DEF needed
<1> HIDE DEF w, new, old
<1>6. Sized(w)
  <2>1. ASSUME NEW b \in 0..(BufferRoom - 1) PROVE w.bytes[b] \in SUBSET (0..7)
    <3>1. b - new + old \in 0..(BufferRoom - 1) \/ ~(b >= 2 + new /\ b < 2 + new + old)
      BY <1>1, <1>2, <1>4, <1>5
    <3> QED
      BY <1>3, <2>1, <3>1 DEF Sized
  <2>2. w.bytes \in [0..(BufferRoom - 1) -> SUBSET (0..7)]
    BY <1>3, <2>1
  <2> QED
    BY <1>1, <1>3, <2>2 DEF Sized
<1>7. ASSUME NEW j \in Ids
      PROVE  Carried!GetStatus(w, j) = Carried!GetStatus(cmd, j)
  <2>1. Low(j) \in Nat /\ Low(j) >= 2 /\ Carried!LengthNeeded(j) \in Nat
    BY IdFits, ByteIs, NeededIs
  <2>2. /\ Carried!LengthNeeded(j) <= cmd.length <=> Low(j) < 2 + old
        /\ Carried!LengthNeeded(j) <= w.length <=> Low(j) < 2 + new
    BY <1>6, MaskIs DEF new, old
  <2>3. CASE Carried!LengthNeeded(j) > w.length
    BY <1>1, <1>3, <2>1, <2>3, StatusIs
  <2>4. CASE Carried!LengthNeeded(j) <= cmd.length
    <3>1. Low(j) < 2 + old
      BY <2>2, <2>4
    <3>2. /\ Low(j) \in 0..(BufferRoom - 1) /\ Low(j) + new \in 0..(BufferRoom - 1)
          /\ Low(j) < 2 + new
      BY <1>1, <1>2, <1>4, <1>5, <2>1, <3>1
    <3>3. w.bytes[Low(j)] = cmd.bytes[Low(j)]
      BY <1>3, <1>4, <1>5, <2>1, <3>1, <3>2
    <3> DEFINE h == Low(j) + new
    <3>6. h \in 0..(BufferRoom - 1) /\ h >= 2 + new /\ h < 2 + new + old
      BY <1>4, <1>5, <2>1, <3>1, <3>2
    <3>5. h - new + old = Low(j) + old
      BY <1>4, <1>5, <2>1
    <3> HIDE DEF h
    <3>7. w.bytes[h] = cmd.bytes[h - new + old]
      BY <1>3, <3>6
    <3>4. w.bytes[Low(j) + new] = cmd.bytes[Low(j) + old]
      BY <3>5, <3>7 DEF h
    <3>8. ~(Carried!LengthNeeded(j) > cmd.length) /\ ~(Carried!LengthNeeded(j) > w.length)
      BY <1>1, <1>3, <2>1, <2>4
    <3>9. Carried!GetStatus(w, j) = (IF Carried!BitOf(j) \in w.bytes[Low(j)] THEN 1 ELSE 0)
                                    + (IF Carried!BitOf(j) \in w.bytes[Low(j) + new] THEN 2 ELSE 0)
      BY <3>8, StatusIs DEF new
    <3>10. Carried!GetStatus(cmd, j) =
             (IF Carried!BitOf(j) \in cmd.bytes[Low(j)] THEN 1 ELSE 0)
             + (IF Carried!BitOf(j) \in cmd.bytes[Low(j) + old] THEN 2 ELSE 0)
      BY <3>8, StatusIs DEF old
    <3> QED
      BY <3>3, <3>4, <3>9, <3>10
  <2>5. CASE Carried!LengthNeeded(j) <= w.length /\ Carried!LengthNeeded(j) > cmd.length
    <3>1. Low(j) >= 2 + old /\ Low(j) < 2 + new
      BY <1>1, <1>4, <2>1, <2>2, <2>5
    <3>2. Low(j) \in 0..(BufferRoom - 1) /\ Low(j) + new \in 0..(BufferRoom - 1)
      BY <1>1, <1>2, <1>4, <1>5, <2>1, <3>1
    <3>3. w.bytes[Low(j)] = {}
      BY <1>3, <1>4, <1>5, <2>1, <3>1, <3>2
    <3>4. w.bytes[Low(j) + new] = {}
      BY <1>3, <1>4, <1>5, <2>1, <3>1, <3>2
    <3>5. ~(Carried!LengthNeeded(j) > w.length)
      BY <1>1, <1>3, <2>1, <2>5
    <3>6. Carried!GetStatus(w, j) = (IF Carried!BitOf(j) \in w.bytes[Low(j)] THEN 1 ELSE 0)
                                    + (IF Carried!BitOf(j) \in w.bytes[Low(j) + new] THEN 2 ELSE 0)
      BY <3>5, StatusIs DEF new
    <3>7. Carried!GetStatus(cmd, j) = 0
      BY <2>5, StatusIs
    <3> QED
      BY <3>3, <3>4, <3>6, <3>7
  <2> QED
    BY <1>1, <1>3, <2>1, <2>3, <2>4, <2>5
<1> QED
  BY <1>3, <1>6, <1>7 DEF w

LEMMA SetStatusSets ==
  ASSUME NEW cmd, Sized(cmd), NEW i \in Ids, NEW status \in 0..3
  PROVE  /\ Sized(Carried!SetStatus(cmd, i, status))
         /\ \A j \in Ids : Carried!GetStatus(Carried!SetStatus(cmd, i, status), j) =
                             IF j = i THEN status ELSE Carried!GetStatus(cmd, j)
<1> DEFINE wide == IF Carried!LengthNeeded(i) > cmd.length
                   THEN Carried!Grown(cmd, Carried!LengthNeeded(i)) ELSE cmd
           low == Low(i)
           m == Mask(wide)
           high == low + m
           bit == Carried!BitOf(i)
           w == Carried!SetStatus(cmd, i, status)
<1>1. /\ Sized(wide) /\ wide = [length |-> wide.length, bytes |-> wide.bytes]
      /\ \A j \in Ids : Carried!GetStatus(wide, j) = Carried!GetStatus(cmd, j)
  <2>1. Sized(wide) /\ \A j \in Ids : Carried!GetStatus(wide, j) = Carried!GetStatus(cmd, j)
    BY GrownKeeps
  <2> HIDE DEF wide
  <2> QED
    BY <2>1 DEF Sized
<1>2. Carried!LengthNeeded(i) <= wide.length
  <2>1. Carried!LengthNeeded(i) \in Nat /\ cmd.length \in Nat
    BY IdFits, NeededIs DEF Sized
  <2> QED
    BY <2>1, GrownKeeps
<1> HIDE DEF wide
<1>3. w = [wide EXCEPT !.bytes[low] = Carried!Marked(@, bit, status % 2 = 1),
                       !.bytes[high] = Carried!Marked(@, bit, status >= 2)]
  BY DEF Carried!SetStatus, wide, Low, Mask
<1>4. /\ low \in Nat /\ low >= 2 /\ low < 2 + m /\ m \in Nat /\ 2 + 2 * m = wide.length
      /\ wide.length <= BufferRoom /\ BufferRoom \in Nat /\ bit \in 0..7
  BY <1>1, <1>2, IdFits, ByteIs, MaskIs, CommandAssumption DEF Sized
<1>5. low \in 0..(BufferRoom - 1) /\ high \in 0..(BufferRoom - 1) /\ low # high
  BY <1>4
<1> HIDE DEF w, low, high, bit, m
<1>7. wide.bytes \in [0..(BufferRoom - 1) -> SUBSET (0..7)]
  BY <1>1 DEF Sized
<1> DEFINE one == [wide.bytes EXCEPT ![low] = Carried!Marked(@, bit, status % 2 = 1)]
           both == [one EXCEPT ![high] = Carried!Marked(wide.bytes[high], bit, status >= 2)]
<1>6. w = [length |-> wide.length, bytes |-> both]
  <2> DEFINE u == [wide EXCEPT !.bytes[low] = Carried!Marked(@, bit, status % 2 = 1)]
  <2>1. u = [length |-> wide.length, bytes |-> one]
    BY <1>1
  <2>2. w = [u EXCEPT !.bytes[high] = Carried!Marked(wide.bytes[high], bit, status >= 2)]
    BY ONLY <1>3
  <2> HIDE DEF one, u
  <2>3. u.bytes = one
    BY <2>1
  <2>4. [u EXCEPT !.bytes[high] = Carried!Marked(wide.bytes[high], bit, status >= 2)]
          = [length |-> wide.length, bytes |-> both]
    BY <2>1, <2>3
  <2> QED
    BY <2>2, <2>4
<1>12. /\ w = [length |-> w.length, bytes |-> w.bytes]
       /\ w.length = wide.length /\ w.bytes = both
  BY <1>6
<1>8. /\ w.bytes = [b \in 0..(BufferRoom - 1) |-> w.bytes[b]]
      /\ \A b \in 0..(BufferRoom - 1) :
           w.bytes[b] = IF b = low THEN Carried!Marked(wide.bytes[low], bit, status % 2 = 1)
                        ELSE IF b = high THEN Carried!Marked(wide.bytes[high], bit, status >= 2)
                        ELSE wide.bytes[b]
  BY <1>5, <1>7, <1>12
<1> HIDE DEF one, both
<1>9. Sized(w)
  <2>1. \A b \in 0..(BufferRoom - 1) : w.bytes[b] \in SUBSET (0..7)
    BY <1>4, <1>5, <1>7, <1>8 DEF Carried!Marked
  <2>2. w.bytes \in [0..(BufferRoom - 1) -> SUBSET (0..7)]
    BY <1>8, <2>1
  <2> QED
    BY <1>1, <1>12, <2>2 DEF Sized
<1>10. Mask(w) = m
  BY <1>12 DEF Mask, m
<1>11. ASSUME NEW j \in Ids
       PROVE  Carried!GetStatus(w, j) = IF j = i THEN status ELSE Carried!GetStatus(cmd, j)
  <2>1. CASE j = i
    <3>1. /\ w.bytes[low] = Carried!Marked(wide.bytes[low], bit, status % 2 = 1)
          /\ w.bytes[high] = Carried!Marked(wide.bytes[high], bit, status >= 2)
      BY <1>5, <1>8
    <3>2. /\ bit \in w.bytes[low] <=> status % 2 = 1
          /\ bit \in w.bytes[high] <=> status >= 2
      BY <3>1 DEF Carried!Marked
    <3>3. Carried!LengthNeeded(i) \in Nat /\ w.length \in Nat
      BY <1>9, IdFits, NeededIs DEF Sized
    <3>4. Carried!GetStatus(w, i) = (IF bit \in w.bytes[low] THEN 1 ELSE 0)
                                    + (IF bit \in w.bytes[high] THEN 2 ELSE 0)
      BY <1>2, <1>9, <1>10, <1>12, <3>3, StatusIs DEF low, high, bit
    <3>5. status \in {0, 1, 2, 3}
      OBVIOUS
    <3> QED
      BY <2>1, <3>2, <3>4, <3>5
  <2>2. CASE j # i /\ Carried!LengthNeeded(j) > wide.length
    <3>1. Carried!GetStatus(w, j) = 0 /\ Carried!GetStatus(wide, j) = 0
      BY <1>12, <2>2, StatusIs
    <3> QED
      BY <1>1, <2>2, <3>1
  <2>3. CASE j # i /\ ~(Carried!LengthNeeded(j) > wide.length)
    <3>1. Carried!LengthNeeded(j) \in Nat /\ wide.length \in Nat
      BY <1>1, IdFits, NeededIs DEF Sized
    <3>2. Low(j) \in Nat /\ Low(j) >= 2 /\ Low(j) < 2 + m
      BY <1>1, <2>3, <3>1, IdFits, ByteIs, MaskIs DEF m
    <3>3. Low(j) \in 0..(BufferRoom - 1) /\ Low(j) + m \in 0..(BufferRoom - 1)
      BY <1>4, <3>2
    <3>4. Low(j) # low \/ Carried!BitOf(j) # bit
      BY <2>3, BitsApart DEF low, bit
    <3>5. Low(j) # high /\ Low(j) + m # low /\ (Low(j) + m = high <=> Low(j) = low)
      BY <1>4, <3>2 DEF high
    <3>6. /\ Carried!BitOf(j) \in w.bytes[Low(j)] <=> Carried!BitOf(j) \in wide.bytes[Low(j)]
          /\ Carried!BitOf(j) \in w.bytes[Low(j) + m]
               <=> Carried!BitOf(j) \in wide.bytes[Low(j) + m]
      BY <1>8, <3>3, <3>4, <3>5 DEF Carried!Marked
    <3>7. Carried!GetStatus(w, j) = Carried!GetStatus(wide, j)
      BY <1>12, <1>10, <2>3, <3>6, StatusIs DEF m
    <3> QED
      BY <1>1, <2>3, <3>7
  <2> QED
    BY <2>1, <2>2, <2>3
<1> QED
  BY <1>12, <1>9, <1>11 DEF w
\* What MgenFlow::DoOnEvent does for one flow of the list.
AfterOne(list, cmd, n) ==
  IF n \notin Ids \/ list[n] = Carried!UNCHANGED_STATUS THEN cmd
  ELSE Carried!SetStatus(cmd, n, list[n])

UpTo(list, start, m, g) ==
  g = [n \in 0..m |-> IF n = 0 THEN start ELSE AfterOne(list, g[n - 1], n)]

LEMMA UpToExists ==
  ASSUME NEW list, NEW start, NEW m \in Nat
  PROVE  \E g : UpTo(list, start, m, g)
<1> DEFINE Is(g, k) == UpTo(list, start, k, g)
           T == {k \in Nat : ~\E g : Is(g, k)}
<1>1. SUFFICES ASSUME T # {} PROVE FALSE
  OBVIOUS
<1>2. PICK k \in T : \A y \in T : k <= y
  <2>1. T \in SUBSET Nat
    OBVIOUS
  <2> HIDE DEF T
  <2> QED
    BY <1>1, <2>1, LeastOf
<1>3. k \in Nat /\ ~\E g : Is(g, k)
  BY <1>2
<1>4. CASE k = 0
  <2>1. Is([n \in 0..0 |-> start], 0)
    BY DEF UpTo
  <2> QED
    BY <1>3, <1>4, <2>1
<1>5. CASE k # 0
  <2>1. k - 1 \in Nat /\ k - 1 < k
    BY <1>3, <1>5
  <2>2. k - 1 \notin T
    <3> HIDE DEF T
    <3> QED
      BY <1>2, <1>3, <2>1
  <2>3. PICK g : Is(g, k - 1)
    BY <2>1, <2>2
  <2> DEFINE h == [n \in 0..k |-> IF n = k THEN AfterOne(list, g[k - 1], k) ELSE g[n]]
  <2>4. ASSUME NEW n \in 0..k
        PROVE  h[n] = IF n = 0 THEN start ELSE AfterOne(list, h[n - 1], n)
    <3>1. CASE n = k
      <4>1. h[n] = AfterOne(list, g[k - 1], k) /\ h[n - 1] = g[k - 1]
        BY <1>3, <2>1, <3>1
      <4> QED
        BY <1>5, <3>1, <4>1
    <3>2. CASE n = 0
      <4>1. 0 \in 0..(k - 1) /\ h[0] = g[0]
        BY <1>3, <1>5, <3>2
      <4>2. g[0] = start
        BY <2>3, <4>1 DEF UpTo
      <4> QED
        BY <3>2, <4>1, <4>2
    <3>3. CASE n # k /\ n # 0
      <4>1. n \in 0..(k - 1) /\ n - 1 \in 0..k /\ n - 1 # k
        BY <1>3, <3>3
      <4>2. h[n] = g[n] /\ h[n - 1] = g[n - 1]
        BY <3>3, <4>1
      <4>3. g[n] = AfterOne(list, g[n - 1], n)
        BY <2>3, <3>3, <4>1 DEF UpTo
      <4> QED
        BY <3>3, <4>2, <4>3
    <3> QED
      BY <3>1, <3>2, <3>3
  <2>5. h = [n \in 0..k |-> h[n]]
    OBVIOUS
  <2> HIDE DEF h
  <2>6. Is(h, k)
    BY <2>4, <2>5 DEF UpTo
  <2> QED
    BY <1>3, <2>6
<1> QED
  BY <1>4, <1>5

\* MgenFlow::DoOnEvent: the command says of each flow of the list what the list says,
\* and of the others what it said.
LEMMA SetAllSets ==
  ASSUME Sized(Carried!Command), NEW list \in [Ids -> 0..3]
  PROVE  /\ Sized(Carried!SetAll(list))
         /\ \A j \in Ids : Carried!GetStatus(Carried!SetAll(list), j) =
              IF list[j] = 0 THEN Carried!GetStatus(Carried!Command, j) ELSE list[j]
<1> DEFINE start == Carried!Command
           step(a, n) == IF n = 0 THEN start ELSE AfterOne(list, a[n - 1], n)
           upTo == CHOOSE a : a = [n \in 0..MAX_FLOW |-> step(a, n)]
<1>1. Carried!SetAll(list) = upTo[MAX_FLOW]
  BY DEF Carried!SetAll, AfterOne
<1>2. MAX_FLOW \in Nat /\ Ids \subseteq 1..MAX_FLOW
  BY CommandAssumption
<1>4. \E g : g = [n \in 0..MAX_FLOW |-> step(g, n)]
  <2>1. PICK g : UpTo(list, start, MAX_FLOW, g)
    BY <1>2, UpToExists
  <2>2. g = [n \in 0..MAX_FLOW |-> step(g, n)]
    BY <2>1 DEF UpTo
  <2> QED
    BY <2>2
<1>5. upTo = [n \in 0..MAX_FLOW |-> step(upTo, n)]
  <2> HIDE DEF step
  <2> QED
    BY <1>4
<1> HIDE DEF upTo, start
<1>6. \A n \in 0..MAX_FLOW : upTo[n] = step(upTo, n)
  <2> HIDE DEF step
  <2> QED
    BY <1>5
<1> DEFINE Good(n) ==
             /\ Sized(upTo[n])
             /\ \A j \in Ids : Carried!GetStatus(upTo[n], j) =
                  IF j > n \/ list[j] = 0 THEN Carried!GetStatus(start, j) ELSE list[j]
           T == {n \in 0..MAX_FLOW : ~Good(n)}
<1>7. ASSUME T # {} PROVE FALSE
  <2>1. PICK n \in T : \A y \in T : n <= y
    <3>1. T \in SUBSET Nat
      BY <1>2
    <3> HIDE DEF T
    <3> QED
      BY <1>7, <3>1, LeastOf
  <2>2. n \in 0..MAX_FLOW /\ ~Good(n)
    BY <2>1
  <2>3. CASE n = 0
    <3>1. upTo[0] = start
      BY <1>6, <2>2, <2>3
    <3>2. \A j \in Ids : j > 0
      BY <1>2
    <3>3. Good(0)
      BY <3>1, <3>2 DEF start
    <3> QED
      BY <2>2, <2>3, <3>3
  <2>4. CASE n # 0
    <3>1. n - 1 \in 0..MAX_FLOW /\ n - 1 < n /\ n \in Int
      BY <1>2, <2>2, <2>4
    <3>2. n - 1 \notin T
      BY <2>1, <3>1
    <3>3. Good(n - 1)
      BY <3>1, <3>2
    <3> DEFINE b == upTo[n - 1]
               w == upTo[n]
    <3>4. w = AfterOne(list, b, n)
      BY <1>6, <2>2, <2>4
    <3>5. /\ Sized(b)
          /\ \A j \in Ids : Carried!GetStatus(b, j) =
               IF j > n - 1 \/ list[j] = 0 THEN Carried!GetStatus(start, j) ELSE list[j]
      BY <3>3
    <3> HIDE DEF b, w
    <3>6. CASE n \notin Ids \/ list[n] = 0
      <4>1. w = b
        BY <3>4, <3>6 DEF AfterOne, Carried!UNCHANGED_STATUS
      <4>2. ASSUME NEW j \in Ids
            PROVE  (j > n \/ list[j] = 0) <=> (j > n - 1 \/ list[j] = 0)
        <5>1. j \in Nat
          BY <1>2
        <5> QED
          BY <3>1, <3>6, <5>1
      <4>3. Good(n)
        BY <3>5, <4>1, <4>2 DEF w
      <4> QED
        BY <2>2, <4>3
    <3>7. CASE ~(n \notin Ids \/ list[n] = 0)
      <4>1. n \in Ids /\ list[n] \in 0..3 /\ list[n] # 0
        BY <3>7
      <4>2. w = Carried!SetStatus(b, n, list[n])
        BY <3>4, <4>1 DEF AfterOne, Carried!UNCHANGED_STATUS
      <4>6. PICK status \in 0..3 : status = list[n]
        BY <4>1
      <4>7. /\ Sized(Carried!SetStatus(b, n, status))
            /\ \A j \in Ids : Carried!GetStatus(Carried!SetStatus(b, n, status), j) =
                                IF j = n THEN status ELSE Carried!GetStatus(b, j)
        BY <3>5, <4>1, SetStatusSets
      <4>3. /\ Sized(w)
            /\ \A j \in Ids : Carried!GetStatus(w, j) =
                                IF j = n THEN list[n] ELSE Carried!GetStatus(b, j)
        BY <4>2, <4>6, <4>7
      <4>4. ASSUME NEW j \in Ids
            PROVE  Carried!GetStatus(w, j) =
                     IF j > n \/ list[j] = 0 THEN Carried!GetStatus(start, j) ELSE list[j]
        <5>1. j \in Nat
          BY <1>2
        <5>2. CASE j = n
          BY <3>1, <4>1, <4>3, <5>1, <5>2
        <5>3. CASE j # n
          <6>1. (j > n \/ list[j] = 0) <=> (j > n - 1 \/ list[j] = 0)
            BY <3>1, <5>1, <5>3
          <6> QED
            BY <3>5, <4>3, <5>3, <6>1
        <5> QED
          BY <5>2, <5>3
      <4>5. Good(n)
        BY <4>3, <4>4 DEF w
      <4> QED
        BY <2>2, <4>5
    <3> QED
      BY <3>6, <3>7
  <2> QED
    BY <2>3, <2>4
<1>8. MAX_FLOW \in 0..MAX_FLOW
  BY <1>2
<1>9. Good(MAX_FLOW)
  BY <1>7, <1>8
<1>10. \A j \in Ids : ~(j > MAX_FLOW)
  BY <1>2
<1> QED
  BY <1>1, <1>9, <1>10 DEF start
\* The command of the flow, and every message under way, says what was told.
CommandInv ==
  /\ s3 \in [Ids -> 0..3]
  /\ Sized(Carried!Command) /\ Says(Carried!Command, s3)
  /\ \A m \in s5 : Sized(m.command) /\ Says(m.command, m.told)

LEMMA CommandInit ==
  ASSUME Carried!Init
  PROVE  CommandInv
<1> DEFINE cmd == Carried!Command
<1>1. /\ s1 = [b \in 0..(BufferRoom - 1) |-> {}] /\ s2 = 2 /\ s3 = [i \in Ids |-> 0] /\ s5 = {}
  BY DEF Carried!Init, Carried!OFFSET_BITS, Carried!UNCHANGED_STATUS
<1>2. cmd = [length |-> cmd.length, bytes |-> cmd.bytes] /\ cmd.length = 2 /\ cmd.bytes = s1
  BY <1>1 DEF Carried!Command
<1>3. BufferRoom >= 2
  <2>1. MAX_FLOW \in Nat /\ BufferRoom \in Nat /\ Carried!LengthNeeded(MAX_FLOW) <= BufferRoom
    BY CommandAssumption
  <2> QED
    BY <2>1, NeededIs, GrowthIs
<1> HIDE DEF cmd
<1>4. Sized(cmd)
  BY <1>1, <1>2, <1>3 DEF Sized
<1>5. ASSUME NEW i \in Ids PROVE Carried!GetStatus(cmd, i) = s3[i]
  <2>1. Carried!LengthNeeded(i) \in Nat /\ Carried!LengthNeeded(i) >= 4
    BY IdFits, NeededIs, GrowthIs
  <2> QED
    BY <1>1, <1>2, <2>1, StatusIs
<1> QED
  BY <1>1, <1>4, <1>5 DEF CommandInv, Says, cmd

LEMMA CommandNext ==
  ASSUME CommandInv, Carried!Next
  PROVE  CommandInv'
<1>1. ASSUME NEW list \in FewStatuses(Ids, MaxNamed), Carried!On(list)
      PROVE  CommandInv'
  <2>1. list \in [Ids -> 0..3]
    BY DEF FewStatuses
  <2> DEFINE cmd == Carried!SetAll(list)
  <2>2. /\ Sized(cmd)
        /\ \A j \in Ids : Carried!GetStatus(cmd, j) =
             IF list[j] = 0 THEN Carried!GetStatus(Carried!Command, j) ELSE list[j]
    BY <2>1, SetAllSets DEF CommandInv
  <2>3. /\ s1' = cmd.bytes /\ s2' = cmd.length /\ s5' = s5
        /\ s3' = [i \in Ids |-> IF list[i] = 0 THEN s3[i] ELSE list[i]]
    BY <1>1 DEF Carried!On, Carried!UNCHANGED_STATUS
  <2> HIDE DEF cmd
  <2>4. Carried!Command' = cmd
    BY <2>2, <2>3 DEF Carried!Command, Sized
  <2>5. s3' \in [Ids -> 0..3]
    BY <2>1, <2>3 DEF CommandInv
  <2>6. Says(cmd, s3')
    BY <2>2, <2>3 DEF CommandInv, Says
  <2> QED
    BY <2>2, <2>3, <2>4, <2>5, <2>6 DEF CommandInv
<1>2. CASE Carried!Send
  <2>1. /\ s5' = s5 \cup {[command |-> Carried!Command, told |-> s3]}
        /\ s1' = s1 /\ s2' = s2 /\ s3' = s3
    BY <1>2 DEF Carried!Send
  <2>2. Carried!Command' = Carried!Command
    BY <2>1 DEF Carried!Command
  <2> QED
    BY <2>1, <2>2 DEF CommandInv
<1>3. CASE (\E m \in s5 : Carried!Receive(m)) \/ (\E i \in Ids : Carried!Count(i))
  <2>1. s1' = s1 /\ s2' = s2 /\ s3' = s3 /\ s5' = s5
    BY <1>3 DEF Carried!Receive, Carried!Count
  <2>2. Carried!Command' = Carried!Command
    BY <2>1 DEF Carried!Command
  <2> QED
    BY <2>1, <2>2 DEF CommandInv
<1> QED
  BY <1>1, <1>2, <1>3 DEF Carried!Next

\* MgenFlowCommand with MgenFlow::DoOnEvent and MgenTransport::ProcessRecvMessage: in
\* whatever order ON lines name flows, of any ids that fit, and however the masks grow
\* with them, a message that arrives at any time says of each flow what had been told
\* when it was sent, and leaves the others alone.
THEOREM CommandsAsTold == MCSpec => []AsTold
<1> DEFINE all == <<part, vars, reporter, others>>
           I == part = "commands" => CommandInv
<1>1. MCInit => I
  BY CommandInit DEF MCInit
<1>2. I /\ [MCNext]_all => I'
  <2> SUFFICES ASSUME I, [MCNext]_all PROVE I'
    OBVIOUS
  <2>1. part' = part
    BY DEF MCNext, Windows, Reporting
  <2>2. CASE part = "commands"
    <3>1. Carried!Next \/ UNCHANGED others
      BY <2>2 DEF MCNext, Windows, Reporting
    <3>2. CommandInv
      BY <2>2
    <3>3. UNCHANGED others => CommandInv'
      BY <3>2 DEF others, CommandInv, Carried!Command
    <3> QED
      BY <3>1, <3>2, <3>3, CommandNext
  <2>3. CASE part # "commands"
    BY <2>1, <2>3
  <2> QED
    BY <2>2, <2>3
<1>3. I => AsTold
  <2> SUFFICES ASSUME CommandInv PROVE Carried!AsTold
    BY DEF AsTold
  <2>1. \A i \in Ids : Carried!GetStatus(Carried!Command, i) = s3[i]
    BY DEF CommandInv, Says
  <2>2. ASSUME NEW m \in s5, NEW i \in Ids
        PROVE  (IF i <= Carried!GetMaxFlowId(m.command) THEN Carried!GetStatus(m.command, i)
                ELSE 0) = m.told[i]
    <3> DEFINE cmd == m.command
    <3>1. Sized(cmd) /\ Carried!GetStatus(cmd, i) = m.told[i]
      BY DEF CommandInv, Says
    <3> HIDE DEF cmd
    <3>2. Carried!LengthNeeded(i) <= cmd.length <=> i <= Carried!GetMaxFlowId(cmd)
      BY <3>1, MaskIs
    <3>3. Carried!LengthNeeded(i) \in Nat /\ cmd.length \in Nat
      BY <3>1, IdFits, NeededIs DEF Sized
    <3>4. CASE i <= Carried!GetMaxFlowId(cmd)
      BY <3>1, <3>4 DEF cmd
    <3>5. CASE ~(i <= Carried!GetMaxFlowId(cmd))
      <4>1. Carried!GetStatus(cmd, i) = 0
        BY <3>2, <3>3, <3>5, StatusIs
      <4> QED
        BY <3>1, <3>5, <4>1 DEF cmd
    <3> QED
      BY <3>4, <3>5
  <2> QED
    BY <2>1, <2>2 DEF Carried!AsTold, Carried!UNCHANGED_STATUS
<1> QED
  BY <1>1, <1>2, <1>3, PTL DEF MCSpec
-------------------------------------------------------------------------------

(***************************************************************************)
(* What a receiver is shown.  In MessageFormat the protocol is s1, the     *)
(* stage s2, the message sent s3, the MgenMsg it is unpacked into s4, the  *)
(* line of a text log s5, the converted line s6.                           *)
(***************************************************************************)
Fields == {"zero", "fixed", "host", "gps", "type", "length", "payload", "checksum"}
Bytes == [field : Fields, of : Format!MessageKinds \cup {Format!NoMessage}]
Cell(f, m) == [field |-> f, of |-> m]

\* Where the fixed header ends, and after it the k-th field.
At(m, k) ==
  24 + m.dst + (IF k > 0 THEN 4 + m.host ELSE 0) + (IF k > 1 THEN 13 ELSE 0)
    + (IF k > 2 THEN 1 ELSE 0) + (IF k > 3 THEN 2 ELSE 0)

\* What is there in a message with all of them.
LaidOut(m, i) ==
  IF i <= At(m, 0) THEN Cell("fixed", m)
  ELSE IF i <= At(m, 1) THEN IF m.host = 0 THEN Format!Zero ELSE Cell("host", m)
  ELSE IF i <= At(m, 2) THEN Cell("gps", m)
  ELSE IF i <= At(m, 3) THEN Cell("type", m)
  ELSE Cell("length", m)

LEMMA KindFacts ==
  ASSUME NEW m \in Format!MessageKinds
  PROVE  /\ m.number \in {1, 2} /\ m.dst \in {4, 16} /\ m.host \in {0, 4, 16} /\ m.length \in Nat
         /\ m.kind \in {"data", "items"}
         /\ \A k \in 0..4 : At(m, k) \in Nat
<1>1. /\ m.number \in {1, 2} /\ m.dst \in {4, 16} /\ m.host \in {0, 4, 16} /\ m.length \in Nat
      /\ m.kind \in {"data", "items"}
  BY FormatAssumption DEF FormatChoices, Format!MessageKinds
<1>2. ASSUME NEW k \in 0..4 PROVE At(m, k) \in Nat
  <2> DEFINE a == IF k > 0 THEN 4 + m.host ELSE 0
             b == IF k > 1 THEN 13 ELSE 0
             c == IF k > 2 THEN 1 ELSE 0
             d == IF k > 3 THEN 2 ELSE 0
  <2>1. a \in Nat /\ b \in Nat /\ c \in Nat /\ d \in Nat /\ m.dst \in Nat
    BY <1>1
  <2>2. At(m, k) = 24 + m.dst + a + b + c + d
    BY DEF At
  <2> HIDE DEF a, b, c, d
  <2> QED
    BY <2>1, <2>2
<1> QED
  BY <1>1, <1>2

LEMMA CellsAre ==
  ASSUME NEW m \in Format!MessageKinds, NEW n \in Nat, NEW f \in Fields
  PROVE  /\ Format!Cells(f, m, n) \in Seq(Bytes) /\ Len(Format!Cells(f, m, n)) = n
         /\ \A i \in 1..n : Format!Cells(f, m, n)[i] = Cell(f, m)
<1> DEFINE c == Format!Cells(f, m, n)
<1>1. Cell(f, m) \in Bytes
  BY DEF Cell, Bytes
<1>2. c = [i \in 1..n |-> Cell(f, m)]
  BY DEF Format!Cells, Cell
<1> HIDE DEF c
<1>3. c \in [1..n -> Bytes] /\ \A i \in 1..n : c[i] = Cell(f, m)
  BY <1>1, <1>2
<1>4. c \in Seq(Bytes)
  BY <1>3, SeqDef
<1>5. Len(c) = n
  BY <1>3, <1>4, LenProperties
<1> QED
  BY <1>3, <1>4, <1>5 DEF c

LEMMA ZerosAre ==
  ASSUME NEW n \in Nat
  PROVE  /\ Format!Zeros(n) \in Seq(Bytes) /\ Len(Format!Zeros(n)) = n
         /\ \A i \in 1..n : Format!Zeros(n)[i] = Format!Zero
<1> DEFINE c == Format!Zeros(n)
<1>1. Format!Zero \in Bytes
  BY DEF Format!Zero, Bytes, Fields
<1>2. c = [i \in 1..n |-> Format!Zero]
  BY DEF Format!Zeros
<1> HIDE DEF c
<1>3. c \in [1..n -> Bytes] /\ \A i \in 1..n : c[i] = Format!Zero
  BY <1>1, <1>2
<1>4. c \in Seq(Bytes)
  BY <1>3, SeqDef
<1>5. Len(c) = n
  BY <1>3, <1>4, LenProperties
<1> QED
  BY <1>3, <1>4, <1>5 DEF c

\* A sequence that is laid out to the end of the k-th field.
Begun(c, m, k) ==
  /\ c \in Seq(Bytes) /\ Len(c) = At(m, k)
  /\ \A i \in 1..At(m, k) : c[i] = LaidOut(m, i)

LEMMA FieldAdded ==
  ASSUME NEW m \in Format!MessageKinds, NEW k \in 1..4, NEW c, Begun(c, m, k - 1),
         NEW d \in Seq(Bytes),
         At(m, k - 1) + Len(d) = At(m, k),
         \A i \in 1..Len(d) : d[i] = LaidOut(m, At(m, k - 1) + i)
  PROVE  Begun(c \o d, m, k)
<1> DEFINE p == At(m, k - 1)
           q == At(m, k)
<1>1. p \in Nat /\ q \in Nat /\ Len(d) \in Nat /\ p + Len(d) = q
  BY KindFacts, LenProperties
<1>2. c \in Seq(Bytes) /\ Len(c) = p /\ \A i \in 1..p : c[i] = LaidOut(m, i)
  BY DEF Begun
<1>3. \A i \in 1..Len(d) : d[i] = LaidOut(m, p + i)
  OBVIOUS
<1> HIDE DEF p, q
<1>4. /\ c \o d \in Seq(Bytes) /\ Len(c \o d) = q
      /\ \A i \in 1..q : (c \o d)[i] = IF i <= p THEN c[i] ELSE d[i - p]
  BY <1>1, <1>2, ConcatProperties
<1>5. ASSUME NEW i \in 1..q PROVE (c \o d)[i] = LaidOut(m, i)
  <2>1. CASE i <= p
    BY <1>2, <1>4, <2>1
  <2>2. CASE ~(i <= p)
    <3>1. i - p \in 1..Len(d) /\ p + (i - p) = i
      BY <1>1, <2>2
    <3> QED
      BY <1>3, <1>4, <2>2, <3>1
  <2> QED
    BY <2>1, <2>2
<1> QED
  BY <1>4, <1>5 DEF Begun, q

LEMMA HeaderIs ==
  ASSUME NEW m \in Format!MessageKinds, NEW k \in 0..4
  PROVE  Begun(Format!Header(m, k), m, k)
<1> DEFINE o == Format!Optional(m)
           h == Format!Header(m, k)
           f == Format!Cells("fixed", m, 24 + m.dst)
<1>1. /\ m.dst \in {4, 16} /\ m.host \in {0, 4, 16} /\ \A j \in 0..4 : At(m, j) \in Nat
      /\ At(m, 0) = 24 + m.dst /\ At(m, 1) = At(m, 0) + 4 + m.host /\ At(m, 2) = At(m, 1) + 13
      /\ At(m, 3) = At(m, 2) + 1 /\ At(m, 4) = At(m, 3) + 2
  BY KindFacts DEF At
<1> HIDE DEF o, h
<1>0. /\ {"fixed", "host", "gps", "type", "length"} \subseteq Fields /\ 4 + m.host \in Nat
      /\ 24 + m.dst \in Nat /\ {13, 1, 2, 4} \subseteq Nat
  BY <1>1 DEF Fields
<1>2. Begun(f, m, 0)
  <2>1. \A i \in 1..(24 + m.dst) : LaidOut(m, i) = Cell("fixed", m)
    BY <1>1 DEF LaidOut
  <2>2. "fixed" \in Fields
    BY <1>0
  <2>3. /\ f \in Seq(Bytes) /\ Len(f) = 24 + m.dst
        /\ \A i \in 1..(24 + m.dst) : f[i] = Cell("fixed", m)
    BY <1>0, <2>2, CellsAre
  <2> HIDE DEF f
  <2> QED
    BY <1>1, <2>1, <2>3 DEF Begun
<1>3. /\ o[1] \in Seq(Bytes) /\ Len(o[1]) = 4 + m.host
      /\ \A i \in 1..Len(o[1]) : o[1][i] = LaidOut(m, At(m, 0) + i)
  <2>1. o[1] = IF m.host = 0 THEN Format!Zeros(4) ELSE Format!Cells("host", m, 4 + m.host)
    BY DEF Format!Optional, o
  <2>2. \A i \in 1..(4 + m.host) :
          LaidOut(m, At(m, 0) + i) = IF m.host = 0 THEN Format!Zero ELSE Cell("host", m)
    BY <1>1 DEF LaidOut
  <2> QED
    <3>1. CASE m.host = 0
      <4>1. o[1] = Format!Zeros(4) /\ 4 \in Nat /\ 4 + m.host = 4
        BY <2>1, <3>1
      <4>2. \A i \in 1..4 : LaidOut(m, At(m, 0) + i) = Format!Zero
        BY <2>2, <3>1, <4>1
      <4>3. /\ Format!Zeros(4) \in Seq(Bytes) /\ Len(Format!Zeros(4)) = 4
            /\ \A i \in 1..4 : Format!Zeros(4)[i] = Format!Zero
        BY <4>1, ZerosAre
      <4> QED
        BY <4>1, <4>2, <4>3
    <3>2. CASE m.host # 0
      <4>1. o[1] = Format!Cells("host", m, 4 + m.host) /\ "host" \in Fields /\ 4 + m.host \in Nat
        BY <1>0, <2>1, <3>2
      <4>2. /\ o[1] \in Seq(Bytes) /\ Len(o[1]) = 4 + m.host
            /\ \A i \in 1..(4 + m.host) : o[1][i] = Cell("host", m)
        BY <4>1, CellsAre
      <4> QED
        BY <2>2, <3>2, <4>2
    <3> QED
      BY <3>1, <3>2
<1>4. /\ o[2] \in Seq(Bytes) /\ Len(o[2]) = 13
      /\ \A i \in 1..Len(o[2]) : o[2][i] = LaidOut(m, At(m, 1) + i)
  <2>1. o[2] = Format!Cells("gps", m, 13)
    BY DEF Format!Optional, o
  <2>2. \A i \in 1..13 : LaidOut(m, At(m, 1) + i) = Cell("gps", m)
    BY <1>1 DEF LaidOut
  <2>3. PICK n \in Nat : n = 13
    OBVIOUS
  <2>4. /\ o[2] \in Seq(Bytes) /\ Len(o[2]) = 13
        /\ \A i \in 1..13 : o[2][i] = Cell("gps", m)
    <3>1. o[2] = Format!Cells("gps", m, n) /\ "gps" \in Fields
      BY <1>0, <2>1, <2>3
    <3>2. /\ o[2] \in Seq(Bytes) /\ Len(o[2]) = n /\ \A i \in 1..n : o[2][i] = Cell("gps", m)
      BY <3>1, CellsAre
    <3> QED
      BY <2>3, <3>2
  <2> QED
    BY <2>2, <2>4
<1>5. /\ o[3] \in Seq(Bytes) /\ Len(o[3]) = 1
      /\ \A i \in 1..Len(o[3]) : o[3][i] = LaidOut(m, At(m, 2) + i)
  <2>1. o[3] = Format!Cells("type", m, 1)
    BY DEF Format!Optional, o
  <2>2. \A i \in 1..1 : LaidOut(m, At(m, 2) + i) = Cell("type", m)
    BY <1>1 DEF LaidOut
  <2>3. PICK n \in Nat : n = 1
    OBVIOUS
  <2>4. /\ o[3] \in Seq(Bytes) /\ Len(o[3]) = 1
        /\ \A i \in 1..1 : o[3][i] = Cell("type", m)
    <3>1. o[3] = Format!Cells("type", m, n) /\ "type" \in Fields
      BY <1>0, <2>1, <2>3
    <3>2. /\ o[3] \in Seq(Bytes) /\ Len(o[3]) = n /\ \A i \in 1..n : o[3][i] = Cell("type", m)
      BY <3>1, CellsAre
    <3> QED
      BY <2>3, <3>2
  <2> QED
    BY <2>2, <2>4
<1>6. /\ o[4] \in Seq(Bytes) /\ Len(o[4]) = 2
      /\ \A i \in 1..Len(o[4]) : o[4][i] = LaidOut(m, At(m, 3) + i)
  <2>1. o[4] = Format!Cells("length", m, 2)
    BY DEF Format!Optional, o
  <2>2. \A i \in 1..2 : LaidOut(m, At(m, 3) + i) = Cell("length", m)
    BY <1>1 DEF LaidOut
  <2>3. PICK n \in Nat : n = 2
    OBVIOUS
  <2>4. /\ o[4] \in Seq(Bytes) /\ Len(o[4]) = 2
        /\ \A i \in 1..2 : o[4][i] = Cell("length", m)
    <3>1. o[4] = Format!Cells("length", m, n) /\ "length" \in Fields
      BY <1>0, <2>1, <2>3
    <3>2. /\ o[4] \in Seq(Bytes) /\ Len(o[4]) = n /\ \A i \in 1..n : o[4][i] = Cell("length", m)
      BY <3>1, CellsAre
    <3> QED
      BY <2>3, <3>2
  <2> QED
    BY <2>2, <2>4
<1> HIDE DEF f
<1>7. Begun(f \o o[1], m, 1)
  <2>1. 1 \in 1..4 /\ 1 - 1 = 0
    OBVIOUS
  <2> QED
    <3>1. Begun(f, m, 1 - 1) /\ o[1] \in Seq(Bytes) /\ At(m, 1 - 1) + Len(o[1]) = At(m, 1)
          /\ \A i \in 1..Len(o[1]) : o[1][i] = LaidOut(m, At(m, 1 - 1) + i)
      <4>1. At(m, 0) + (4 + m.host) = At(m, 1)
        BY <1>1
      <4> QED
        BY <1>2, <1>3, <2>1, <4>1
    <3> QED
      BY <2>1, <3>1, FieldAdded
<1>8. Begun((f \o o[1]) \o o[2], m, 2)
  <2>1. 2 \in 1..4 /\ 2 - 1 = 1
    OBVIOUS
  <2> QED
    BY <2>1, <1>1, <1>4, <1>7, FieldAdded
<1>9. Begun(((f \o o[1]) \o o[2]) \o o[3], m, 3)
  <2>1. 3 \in 1..4 /\ 3 - 1 = 2
    OBVIOUS
  <2> QED
    BY <2>1, <1>1, <1>5, <1>8, FieldAdded
<1>10. Begun((((f \o o[1]) \o o[2]) \o o[3]) \o o[4], m, 4)
  <2>1. 4 \in 1..4 /\ 4 - 1 = 3
    OBVIOUS
  <2> QED
    BY <2>1, <1>1, <1>6, <1>9, FieldAdded
<1>11. \A c \in Seq(Bytes) : c \o << >> = c
  BY ConcatEmptySeq
<1>12. h = (((f \o (IF 1 <= k THEN o[1] ELSE << >>)) \o (IF 2 <= k THEN o[2] ELSE << >>))
             \o (IF 3 <= k THEN o[3] ELSE << >>)) \o (IF 4 <= k THEN o[4] ELSE << >>)
  BY DEF Format!Header, Format!FixedSize, o, f, h
<1>13. ASSUME k = 0 PROVE Begun(h, m, k)
  <2>1. h = (((f \o << >>) \o << >>) \o << >>) \o << >>
    BY <1>12, <1>13
  <2>2. h = f
    BY <1>11, <1>2, <2>1 DEF Begun
  <2> QED
    BY <1>2, <1>13, <2>2
<1>14. ASSUME k = 1 PROVE Begun(h, m, k)
  <2>1. h = (((f \o o[1]) \o << >>) \o << >>) \o << >>
    BY <1>12, <1>14
  <2>2. h = f \o o[1]
    BY <1>11, <1>7, <2>1 DEF Begun
  <2> QED
    BY <1>7, <1>14, <2>2
<1>15. ASSUME k = 2 PROVE Begun(h, m, k)
  <2>1. h = (((f \o o[1]) \o o[2]) \o << >>) \o << >>
    BY <1>12, <1>15
  <2>2. h = (f \o o[1]) \o o[2]
    BY <1>11, <1>8, <2>1 DEF Begun
  <2> QED
    BY <1>8, <1>15, <2>2
<1>16. ASSUME k = 3 PROVE Begun(h, m, k)
  <2>1. h = (((f \o o[1]) \o o[2]) \o o[3]) \o << >>
    BY <1>12, <1>16
  <2>2. h = ((f \o o[1]) \o o[2]) \o o[3]
    BY <1>11, <1>9, <2>1 DEF Begun
  <2> QED
    BY <1>9, <1>16, <2>2
<1>17. ASSUME k = 4 PROVE Begun(h, m, k)
  <2>1. h = (((f \o o[1]) \o o[2]) \o o[3]) \o o[4]
    BY <1>12, <1>17
  <2>2. h = (((f \o o[1]) \o o[2]) \o o[3]) \o o[4]
    BY <1>11, <1>10, <2>1 DEF Begun
  <2> QED
    BY <1>10, <1>17, <2>2
<1> QED
  <2>1. k = 0 \/ k = 1 \/ k = 2 \/ k = 3 \/ k = 4
    OBVIOUS
  <2> QED
    BY <1>13, <1>14, <1>15, <1>16, <1>17, <2>1 DEF h

\* As many fields as there is room for.
LEMMA FittingIs ==
  ASSUME NEW m \in Format!MessageKinds, NEW size \in Nat, size >= At(m, 0)
  PROVE  LET k == Format!Fitting(m, size)
         IN k \in 0..4 /\ At(m, k) <= size /\ (k < 4 => At(m, k + 1) > size)
<1> DEFINE RoomFor(k) == /\ Len(Format!Header(m, k)) <= size
                         /\ k < 4 => Len(Format!Header(m, k + 1)) > size
<1>1. \A k \in 0..4 : Len(Format!Header(m, k)) = At(m, k) /\ At(m, k) \in Nat
  BY HeaderIs, KindFacts DEF Begun
<1>2. Format!Fitting(m, size) = CHOOSE k \in 0..4 : RoomFor(k)
  BY DEF Format!Fitting
<1>3. \E k \in 0..4 : RoomFor(k)
  <2>1. CASE At(m, 4) <= size
    <3>1. 4 \in 0..4 /\ ~(4 < 4)
      OBVIOUS
    <3> QED
      BY <1>1, <2>1, <3>1
  <2>2. ASSUME NEW k \in 0..3, At(m, k) <= size, At(m, k + 1) > size PROVE RoomFor(k) /\ k \in 0..4
    <3>1. k + 1 \in 0..4 /\ k \in 0..4
      OBVIOUS
    <3> QED
      BY <1>1, <2>2, <3>1
  <2> HIDE DEF RoomFor
  <2>3. {0, 1, 2, 3} \subseteq 0..3 /\ 0 + 1 = 1 /\ 1 + 1 = 2 /\ 2 + 1 = 3 /\ 3 + 1 = 4
    OBVIOUS
  <2>4. {At(m, 0), At(m, 1), At(m, 2), At(m, 3), At(m, 4)} \subseteq Nat
    BY <1>1
  <2>5. CASE At(m, 1) > size
    BY <2>2, <2>3, <2>5
  <2>6. CASE ~(At(m, 1) > size) /\ At(m, 2) > size
    BY <2>2, <2>3, <2>4, <2>6
  <2>7. CASE ~(At(m, 2) > size) /\ At(m, 3) > size
    BY <2>2, <2>3, <2>4, <2>7
  <2>8. CASE ~(At(m, 3) > size) /\ At(m, 4) > size
    BY <2>2, <2>3, <2>4, <2>8
  <2> QED
    BY <2>1, <2>4, <2>5, <2>6, <2>7, <2>8
<1> DEFINE k == Format!Fitting(m, size)
<1>4. k \in 0..4 /\ RoomFor(k)
  <2> HIDE DEF RoomFor
  <2> QED
    BY <1>2, <1>3
<1> HIDE DEF k
<1>5. k < 4 => k + 1 \in 0..4
  BY <1>4
<1>6. k \in 0..4 /\ At(m, k) <= size /\ (k < 4 => At(m, k + 1) > size)
  BY <1>1, <1>4, <1>5
<1> QED
  BY <1>6 DEF k

Whole(m, size) == m.length > 0 /\ At(m, 4) + m.length <= size

\* What is packed of a message c: the fields that fit, with the payload if it is whole.
PackedAs(c, m, size) ==
  LET k == Format!Fitting(m, size)
  IN /\ c \in Seq(Bytes) /\ Len(c) <= size
     /\ k < 4 => Begun(c, m, k)
     /\ k = 4 =>
          /\ Len(c) >= At(m, 4)
          /\ \A i \in 1..At(m, 3) : c[i] = LaidOut(m, i)
          /\ Whole(m, size) =>
               /\ Len(c) = At(m, 4) + m.length /\ c[At(m, 3) + 1] = Cell("length", m)
               /\ \A i \in 1..m.length : c[At(m, 4) + i] = Cell("payload", m)
          /\ ~Whole(m, size) => c[At(m, 3) + 1] = Format!Zero

LEMMA ContentIs ==
  ASSUME NEW m \in Format!MessageKinds, NEW size \in Nat, size >= At(m, 0)
  PROVE  PackedAs(Format!Content(m, size), m, size)
<1> DEFINE k == Format!Fitting(m, size)
           head == Format!Header(m, k)
           c == Format!Content(m, size)
<1>1. k \in 0..4 /\ At(m, k) <= size
  BY FittingIs
<1>2. Begun(head, m, k)
  BY <1>1, HeaderIs
<1>3. c = IF k < 4 THEN head
          ELSE IF m.length > 0 /\ Len(head) + m.length <= size
               THEN head \o Format!Cells("payload", m, m.length)
               ELSE SubSeq(head, 1, Len(head) - 2) \o Format!Zeros(2)
  BY DEF Format!Content
<1>4. /\ m.length \in Nat /\ \A j \in 0..4 : At(m, j) \in Nat
      /\ At(m, 3) = At(m, 2) + 1 /\ At(m, 4) = At(m, 3) + 2
  BY KindFacts DEF At
<1> HIDE DEF k, head, c
<1>5. CASE k < 4
  <2>1. PackedAs(c, m, size)
    BY <1>1, <1>2, <1>3, <1>5 DEF PackedAs, k, Begun
  <2> QED
    BY <2>1 DEF c
<1>6. CASE k = 4
  <2> DEFINE p == At(m, 4)
             q == At(m, 3)
  <2>1. head \in Seq(Bytes) /\ Len(head) = p /\ \A i \in 1..p : head[i] = LaidOut(m, i)
    BY <1>2, <1>6 DEF Begun
  <2>2. p \in Nat /\ q \in Nat /\ p = q + 2 /\ p <= size
    BY <1>1, <1>4, <1>6
  <2>3. LaidOut(m, q + 1) = Cell("length", m)
    <3>1. At(m, 0) <= q /\ At(m, 1) <= q /\ At(m, 2) <= q
      <4>1. At(m, 1) = At(m, 0) + 4 + m.host /\ At(m, 2) = At(m, 1) + 13 /\ m.host \in Nat
        BY KindFacts DEF At
      <4> QED
        BY <1>4, <4>1
    <3>2. {At(m, 0), At(m, 1), At(m, 2)} \subseteq Nat
      BY <1>4
    <3> QED
      BY <2>2, <3>1, <3>2 DEF LaidOut
  <2> HIDE DEF p, q
  <2>4. CASE m.length > 0 /\ p + m.length <= size
    <3> DEFINE d == Format!Cells("payload", m, m.length)
    <3>1. d \in Seq(Bytes) /\ Len(d) = m.length /\ \A i \in 1..m.length : d[i] = Cell("payload", m)
      <4>1. "payload" \in Fields
        BY DEF Fields
      <4> QED
        BY <1>4, <4>1, CellsAre
    <3>2. c = head \o d
      BY <1>3, <1>6, <2>1, <2>4
    <3> HIDE DEF d
    <3>3. /\ c \in Seq(Bytes) /\ Len(c) = p + m.length
          /\ \A i \in 1..(p + m.length) : c[i] = IF i <= p THEN head[i] ELSE d[i - p]
      <4>1. head \in Seq(Bytes) /\ d \in Seq(Bytes)
        BY <2>1, <3>1
      <4>2. /\ head \o d \in Seq(Bytes) /\ Len(head \o d) = Len(head) + Len(d)
            /\ \A i \in 1..(Len(head) + Len(d)) :
                 (head \o d)[i] = IF i <= Len(head) THEN head[i] ELSE d[i - Len(head)]
        BY <4>1, ConcatProperties
      <4>3. Len(head) = p /\ Len(d) = m.length
        BY <2>1, <3>1
      <4> QED
        BY <3>2, <4>2, <4>3
    <3>4. \A i \in 1..p : c[i] = LaidOut(m, i)
      <4>1. \A i \in 1..p : i \in 1..(p + m.length) /\ i <= p
        BY <1>4, <2>2
      <4> QED
        BY <2>1, <3>3, <4>1
    <3>5. \A i \in 1..m.length : c[p + i] = Cell("payload", m)
      <4>1. \A i \in 1..m.length : p + i \in 1..(p + m.length) /\ ~(p + i <= p) /\ (p + i) - p = i
        BY <1>4, <2>2
      <4> QED
        BY <3>1, <3>3, <4>1
    <3>6. q + 1 \in 1..p /\ \A i \in 1..q : i \in 1..p
      BY <2>2
    <3>7. Whole(m, size) /\ Len(c) <= size /\ Len(c) >= p
      BY <1>4, <2>2, <2>4, <3>3 DEF Whole, p
    <3> QED
      BY <1>6, <2>3, <3>3, <3>4, <3>5, <3>6, <3>7 DEF PackedAs, k, p, q, c
  <2>5. CASE ~(m.length > 0 /\ p + m.length <= size)
    <3> DEFINE a == SubSeq(head, 1, q)
               z == Format!Zeros(2)
    <3>1. c = a \o z
      <4>1. p - 2 = q
        BY <2>2
      <4> QED
        BY <1>3, <1>6, <2>1, <2>5, <4>1
    <3>2. a \in Seq(Bytes) /\ Len(a) = q /\ \A i \in 1..q : a[i] = head[i]
      <4>1. 1 \in Int /\ q \in Int /\ \A i \in 1..q : head[i] \in Bytes
        <5>1. \A i \in 1..q : i \in 1..Len(head)
          BY <2>1, <2>2
        <5> QED
          BY <2>1, <2>2, <5>1, ElementOfSeq
      <4>2. /\ a \in Seq(Bytes) /\ Len(a) = IF 1 <= q THEN q - 1 + 1 ELSE 0
            /\ \A i \in 1..(q - 1 + 1) : a[i] = head[1 + i - 1]
        BY <4>1, SubSeqProperties
      <4>3. (IF 1 <= q THEN q - 1 + 1 ELSE 0) = q /\ q - 1 + 1 = q /\ \A i \in 1..q : 1 + i - 1 = i
        BY <2>2
      <4> QED
        BY <4>2, <4>3
    <3>3. z \in Seq(Bytes) /\ Len(z) = 2 /\ \A i \in 1..2 : z[i] = Format!Zero
      <4>1. PICK n \in Nat : n = 2
        OBVIOUS
      <4> QED
        BY <4>1, ZerosAre
    <3> HIDE DEF a, z
    <3>4. /\ c \in Seq(Bytes) /\ Len(c) = q + 2
          /\ \A i \in 1..(q + 2) : c[i] = IF i <= q THEN a[i] ELSE z[i - q]
      <4>1. a \in Seq(Bytes) /\ z \in Seq(Bytes)
        BY <3>2, <3>3
      <4>2. /\ a \o z \in Seq(Bytes) /\ Len(a \o z) = Len(a) + Len(z)
            /\ \A i \in 1..(Len(a) + Len(z)) :
                 (a \o z)[i] = IF i <= Len(a) THEN a[i] ELSE z[i - Len(a)]
        BY <4>1, ConcatProperties
      <4>3. Len(a) = q /\ Len(z) = 2
        BY <3>2, <3>3
      <4> QED
        BY <3>1, <4>2, <4>3
    <3>5. \A i \in 1..q : i \in 1..(q + 2) /\ i <= q /\ i \in 1..p
      BY <2>2
    <3>6. \A i \in 1..q : c[i] = LaidOut(m, i)
      BY <2>1, <3>2, <3>4, <3>5
    <3>7. c[q + 1] = Format!Zero
      <4>1. q + 1 \in 1..(q + 2) /\ ~(q + 1 <= q) /\ (q + 1) - q = 1 /\ 1 \in 1..2
        BY <2>2
      <4> QED
        BY <3>3, <3>4, <4>1
    <3>8. ~Whole(m, size) /\ Len(c) <= size /\ Len(c) >= p
      BY <2>2, <2>5, <3>4 DEF Whole, p
    <3> QED
      BY <1>6, <3>4, <3>6, <3>7, <3>8 DEF PackedAs, k, p, q, c
  <2> QED
    BY <2>4, <2>5
<1> QED
  BY <1>1, <1>5, <1>6

\* The bytes of a message: b has what is packed, and beyond it no field.
Packed(b, m, size) ==
  /\ b \in Seq(Bytes) /\ Len(b) = size
  /\ \A k \in 0..3 : At(m, k) <= size => \A i \in 1..At(m, k) : b[i] = LaidOut(m, i)
  /\ \A k \in 0..3 :
       At(m, k) <= size /\ At(m, k + 1) > size
         => \A i \in 1..size : i > At(m, k) => b[i] = Format!Zero
  /\ At(m, 4) <= size =>
       IF Whole(m, size)
       THEN /\ b[At(m, 3) + 1] = Cell("length", m)
            /\ \A i \in 1..m.length : b[At(m, 4) + i] = Cell("payload", m)
       ELSE b[At(m, 3) + 1] = Format!Zero

\* What the filler and the checksum leave.
LEMMA PackKeeps ==
  ASSUME NEW m \in Format!MessageKinds, NEW size \in Nat, size >= At(m, 0), NEW checksum
  PROVE  LET b == Format!Pack(m, size, checksum)
             c == Format!Content(m, size)
         IN /\ b \in Seq(Bytes) /\ Len(b) = size /\ \A i \in 1..Len(c) : b[i] = c[i]
            /\ Format!Fitting(m, size) < 4 => \A i \in 1..size : i > Len(c) => b[i] = Format!Zero
<1> DEFINE c == Format!Content(m, size)
           n == Len(c)
           z == Format!Zeros(size - n)
           all == c \o z
           s == Format!Cells("checksum", m, 4)
           cut == SubSeq(all, 1, size - 4)
           b == Format!Pack(m, size, checksum)
           fits == Format!RoomForChecksum(m, size)
<1>1. c \in Seq(Bytes) /\ n <= size /\ n \in Nat
  <2>1. c \in Seq(Bytes) /\ n <= size
    BY ContentIs DEF PackedAs
  <2> QED
    BY <2>1, LenProperties
<1>2. b = IF checksum /\ fits THEN cut \o s ELSE all
  BY DEF Format!Pack, Format!Filler
<1>3. fits => Format!Fitting(m, size) = 4 /\ size > n + 4
  BY DEF Format!RoomForChecksum
<1>4. size - n \in Nat
  BY <1>1
<1>5. z \in Seq(Bytes) /\ Len(z) = size - n /\ \A i \in 1..(size - n) : z[i] = Format!Zero
  BY <1>4, ZerosAre
<1> HIDE DEF c, z
<1>6. /\ all \in Seq(Bytes) /\ Len(all) = n + Len(z)
      /\ \A i \in 1..(n + Len(z)) : all[i] = IF i <= n THEN c[i] ELSE z[i - n]
  BY <1>1, <1>5, ConcatProperties
<1> HIDE DEF n, all, b, fits
<1>7. /\ all \in Seq(Bytes) /\ Len(all) = size
      /\ \A i \in 1..size : all[i] = IF i <= n THEN c[i] ELSE z[i - n]
  <2>1. n + Len(z) = size
    BY <1>1, <1>5
  <2> QED
    BY <1>6, <2>1
<1>8. \A i \in 1..n : i \in 1..size /\ i <= n
  BY <1>1
<1>9. \A i \in 1..size : i > n => all[i] = Format!Zero
  <2>1. \A i \in 1..size : i > n => i - n \in 1..(size - n) /\ ~(i <= n)
    BY <1>1
  <2> QED
    BY <1>5, <1>7, <2>1
<1>10. CASE ~(checksum /\ fits)
  <2>1. b = all
    BY <1>2, <1>10
  <2> QED
    BY <1>7, <1>8, <1>9, <2>1 DEF b, n, c
<1>11. CASE checksum /\ fits
  <2>1. size > n + 4 /\ Format!Fitting(m, size) = 4 /\ b = cut \o s
    BY <1>2, <1>3, <1>11
  <2> DEFINE w == size - 4
  <2>2. w \in Nat /\ w > n /\ w + 4 = size /\ w \in Int /\ 1 \in Int /\ 1 <= w
    BY <1>1, <2>1
  <2>3. s \in Seq(Bytes) /\ Len(s) = 4
    <3>1. PICK f : f = 4
      OBVIOUS
    <3>2. "checksum" \in Fields /\ f \in Nat
      BY <3>1 DEF Fields
    <3>3. Format!Cells("checksum", m, f) \in Seq(Bytes) /\ Len(Format!Cells("checksum", m, f)) = f
      BY <3>2, CellsAre
    <3> QED
      BY <3>1, <3>3
  <2> HIDE DEF w, s
  <2>4. cut = SubSeq(all, 1, w)
    BY DEF w
  <2> HIDE DEF cut
  <2>5. cut \in Seq(Bytes) /\ Len(cut) = w /\ \A i \in 1..w : cut[i] = all[i]
    <3>1. \A i \in 1..w : all[i] \in Bytes
      <4>1. \A i \in 1..w : i \in 1..Len(all)
        BY <1>7, <2>2
      <4> QED
        BY <1>7, <4>1, ElementOfSeq
    <3>2. /\ cut \in Seq(Bytes) /\ Len(cut) = IF 1 <= w THEN w - 1 + 1 ELSE 0
          /\ \A i \in 1..(w - 1 + 1) : cut[i] = all[1 + i - 1]
      BY <2>2, <2>4, <3>1, SubSeqProperties
    <3>3. w - 1 + 1 = w /\ \A i \in 1..w : 1 + i - 1 = i
      BY <2>2
    <3> QED
      BY <2>2, <3>2, <3>3
  <2>6. /\ cut \o s \in Seq(Bytes) /\ Len(cut \o s) = Len(cut) + Len(s)
        /\ \A i \in 1..(Len(cut) + Len(s)) :
             (cut \o s)[i] = IF i <= Len(cut) THEN cut[i] ELSE s[i - Len(cut)]
    BY <2>3, <2>5, ConcatProperties
  <2>7. b \in Seq(Bytes) /\ Len(b) = size /\ \A i \in 1..w : b[i] = all[i]
    <3>1. Len(cut) + Len(s) = size /\ \A i \in 1..w : i \in 1..size /\ i <= w
      BY <2>2, <2>3, <2>5
    <3> QED
      BY <2>1, <2>5, <2>6, <3>1
  <2>8. \A i \in 1..n : b[i] = c[i]
    <3>1. \A i \in 1..n : i \in 1..w
      BY <1>1, <2>2
    <3> QED
      BY <1>7, <1>8, <2>7, <3>1
  <2> QED
    BY <2>1, <2>7, <2>8 DEF b, n, c
<1> QED
  BY <1>10, <1>11

LEMMA PackIs ==
  ASSUME NEW m \in Format!MessageKinds, NEW size \in Nat, size >= At(m, 0), NEW checksum
  PROVE  Packed(Format!Pack(m, size, checksum), m, size)
<1> DEFINE b == Format!Pack(m, size, checksum)
           c == Format!Content(m, size)
           f == Format!Fitting(m, size)
<1>1. /\ b \in Seq(Bytes) /\ Len(b) = size /\ \A i \in 1..Len(c) : b[i] = c[i]
      /\ f < 4 => \A i \in 1..size : i > Len(c) => b[i] = Format!Zero
  BY PackKeeps
<1>2. f \in 0..4 /\ At(m, f) <= size /\ (f < 4 => At(m, f + 1) > size)
  BY FittingIs
<1>3. PackedAs(c, m, size)
  BY ContentIs
<1>4. /\ \A k \in 0..4 : At(m, k) \in Nat
      /\ At(m, 0) < At(m, 1) /\ At(m, 1) < At(m, 2) /\ At(m, 2) < At(m, 3)
      /\ At(m, 4) = At(m, 3) + 2
  <2>1. /\ m.host \in Nat /\ \A k \in 0..4 : At(m, k) \in Nat
        /\ At(m, 1) = At(m, 0) + 4 + m.host /\ At(m, 2) = At(m, 1) + 13
        /\ At(m, 3) = At(m, 2) + 1 /\ At(m, 4) = At(m, 3) + 2
    BY KindFacts DEF At
  <2>2. At(m, 0) \in Nat /\ At(m, 1) \in Nat /\ At(m, 2) \in Nat /\ At(m, 3) \in Nat
    BY <2>1
  <2> QED
    BY <2>1, <2>2
<1>5. \A j, k \in 0..4 : j < k => At(m, j) < At(m, k)
  <2>1. \A k \in 0..4 : k = 0 \/ k = 1 \/ k = 2 \/ k = 3 \/ k = 4
    OBVIOUS
  <2>2. {At(m, 0), At(m, 1), At(m, 2), At(m, 3), At(m, 4)} \subseteq Nat
    BY <1>4
  <2> QED
    BY <1>4, <2>1, <2>2
<1> HIDE DEF b, c, f
<1>6. c \in Seq(Bytes) /\ Len(c) \in Nat
  BY <1>3, LenProperties DEF PackedAs
<1>7. ASSUME NEW k \in 0..3, At(m, k) <= size, NEW i \in 1..At(m, k) PROVE b[i] = LaidOut(m, i)
  <2>1. k <= f
    <3>1. CASE f < k
      <4>1. f + 1 \in 0..4 /\ f + 1 <= k /\ k \in 0..4 /\ f < 4
        BY <1>2, <3>1
      <4>2. At(m, f + 1) <= At(m, k)
        <5>1. CASE f + 1 = k
          BY <1>4, <4>1, <5>1
        <5>2. CASE f + 1 < k
          <6>1. At(m, f + 1) < At(m, k) /\ At(m, f + 1) \in Nat /\ At(m, k) \in Nat
            BY <1>4, <1>5, <4>1, <5>2
          <6> QED
            BY <6>1
        <5> QED
          BY <1>2, <4>1, <5>1, <5>2
      <4> QED
        BY <1>2, <1>4, <1>7, <4>1, <4>2
    <3> QED
      BY <1>2, <3>1
  <2>2. At(m, k) <= At(m, f) /\ i \in 1..At(m, f) /\ i \in 1..At(m, 3)
    <3>1. k \in 0..4 /\ 3 \in 0..4
      OBVIOUS
    <3>2. At(m, k) <= At(m, f) /\ At(m, k) <= At(m, 3)
      <4>1. (k < f \/ k = f) /\ (k < 3 \/ k = 3)
        BY <1>2, <2>1
      <4>2. (k < f => At(m, k) < At(m, f)) /\ (k < 3 => At(m, k) < At(m, 3))
        BY <1>2, <1>5, <3>1
      <4>3. At(m, k) \in Nat /\ At(m, f) \in Nat /\ At(m, 3) \in Nat
        BY <1>2, <1>4, <3>1
      <4> QED
        BY <4>1, <4>2, <4>3
    <3> QED
      BY <1>2, <1>4, <3>1, <3>2
  <2>3. c[i] = LaidOut(m, i) /\ i \in 1..Len(c)
    <3>1. CASE f < 4
      BY <1>3, <2>2, <3>1 DEF PackedAs, Begun, f
    <3>2. CASE f = 4
      <4>1. Len(c) >= At(m, 4) /\ \A j \in 1..At(m, 3) : c[j] = LaidOut(m, j)
        BY <1>3, <3>2 DEF PackedAs, f
      <4> QED
        BY <1>4, <1>6, <2>2, <3>2, <4>1
    <3> QED
      BY <1>2, <3>1, <3>2
  <2> QED
    BY <1>1, <2>3
<1>8. ASSUME NEW k \in 0..3, At(m, k) <= size, At(m, k + 1) > size, NEW i \in 1..size, i > At(m, k)
      PROVE  b[i] = Format!Zero
  <2>1. f = k
    <3>1. k + 1 \in 0..4 /\ k \in 0..4 /\ f \in 0..4
      BY <1>2
    <3>2. ~(f < k)
      <4>1. SUFFICES ASSUME f < k PROVE FALSE
        OBVIOUS
      <4>2. f + 1 \in 0..4 /\ (f + 1 = k \/ f + 1 < k) /\ f < 4
        BY <3>1, <4>1
      <4>3. At(m, f + 1) <= At(m, k) /\ At(m, f + 1) > size
        <5>1. f + 1 < k => At(m, f + 1) < At(m, k)
          BY <1>5, <3>1, <4>2
        <5>2. At(m, f + 1) \in Nat /\ At(m, k) \in Nat
          BY <1>4, <3>1, <4>2
        <5> QED
          BY <1>2, <4>2, <5>1, <5>2
      <4>4. At(m, f + 1) \in Nat /\ At(m, k) \in Nat
        BY <1>4, <3>1, <4>2
      <4> QED
        BY <1>8, <4>3, <4>4
    <3>3. ~(k < f)
      <4>1. SUFFICES ASSUME k < f PROVE FALSE
        OBVIOUS
      <4>2. k + 1 = f \/ k + 1 < f
        BY <3>1, <4>1
      <4>3. At(m, k + 1) <= At(m, f)
        <5>1. k + 1 < f => At(m, k + 1) < At(m, f)
          BY <1>5, <3>1
        <5>2. At(m, k + 1) \in Nat /\ At(m, f) \in Nat
          BY <1>4, <3>1
        <5> QED
          BY <4>2, <5>1, <5>2
      <4>4. At(m, k + 1) \in Nat /\ At(m, f) \in Nat
        BY <1>4, <3>1
      <4> QED
        BY <1>2, <1>8, <4>3, <4>4
    <3> QED
      BY <3>1, <3>2, <3>3
  <2>2. f < 4 /\ Len(c) = At(m, k)
    BY <1>3, <2>1 DEF PackedAs, Begun, f
  <2> QED
    BY <1>1, <1>8, <2>2
<1>9. ASSUME At(m, 4) <= size
      PROVE  IF Whole(m, size)
             THEN /\ b[At(m, 3) + 1] = Cell("length", m)
                  /\ \A i \in 1..m.length : b[At(m, 4) + i] = Cell("payload", m)
             ELSE b[At(m, 3) + 1] = Format!Zero
  <2>1. f = 4
    <3>1. CASE f < 4
      <4>1. f + 1 \in 0..4 /\ (f + 1 = 4 \/ f + 1 < 4) /\ 4 \in 0..4
        BY <1>2, <3>1
      <4>2. f + 1 < 4 => At(m, f + 1) < At(m, 4)
        BY <1>5, <4>1
      <4>3. At(m, f + 1) \in Nat /\ At(m, 4) \in Nat
        BY <1>4, <4>1
      <4> QED
        BY <1>2, <1>9, <3>1, <4>1, <4>2, <4>3
    <3> QED
      BY <1>2, <3>1
  <2>2. /\ Len(c) >= At(m, 4)
        /\ Whole(m, size) =>
             /\ Len(c) = At(m, 4) + m.length /\ c[At(m, 3) + 1] = Cell("length", m)
             /\ \A i \in 1..m.length : c[At(m, 4) + i] = Cell("payload", m)
        /\ ~Whole(m, size) => c[At(m, 3) + 1] = Format!Zero
    BY <1>3, <2>1 DEF PackedAs, f
  <2>3. m.length \in Nat /\ At(m, 4) \in Nat /\ At(m, 3) \in Nat /\ At(m, 4) = At(m, 3) + 2
    BY <1>4, KindFacts
  <2>4. b[At(m, 3) + 1] = c[At(m, 3) + 1]
    <3>1. At(m, 3) + 1 \in 1..Len(c)
      BY <1>6, <2>2, <2>3
    <3> QED
      BY <1>1, <3>1
  <2>5. Whole(m, size) => \A i \in 1..m.length : b[At(m, 4) + i] = c[At(m, 4) + i]
    <3>1. Whole(m, size) => \A i \in 1..m.length : At(m, 4) + i \in 1..Len(c)
      BY <2>2, <2>3
    <3> QED
      BY <1>1, <3>1
  <2> QED
    BY <2>2, <2>4, <2>5
<1>10. Packed(b, m, size)
  BY <1>1, <1>7, <1>8, <1>9 DEF Packed
<1> QED
  BY <1>10 DEF b

\* How long the host is that is read.
HostRead(m, size) == IF At(m, 1) <= size THEN m.host ELSE 0
\* Where the status of the GPS is read.
GpsFrom(m, size) == At(m, 0) + 4 + HostRead(m, size)

\* Of a message of that size the first n bytes show as much.
AsMuch(m, size, n) ==
  /\ n \in Nat /\ At(m, 0) <= n /\ n <= size
  /\ At(m, 0) + 4 <= size => At(m, 0) + 4 <= n
  /\ \A d \in {0, 13, 14, 16} : GpsFrom(m, size) + d <= size => GpsFrom(m, size) + d <= n
  /\ Whole(m, size) => At(m, 4) + m.length <= n

LEMMA PlacesAre ==
  ASSUME NEW m \in Format!MessageKinds
  PROVE  /\ \A k \in 0..4 : At(m, k) \in Nat
         /\ At(m, 0) \in Nat /\ At(m, 1) \in Nat /\ At(m, 2) \in Nat /\ At(m, 3) \in Nat
         /\ At(m, 4) \in Nat /\ At(m, 0) = 24 + m.dst /\ At(m, 0) >= 28
         /\ At(m, 1) = At(m, 0) + 4 + m.host /\ At(m, 2) = At(m, 1) + 13
         /\ At(m, 3) = At(m, 2) + 1 /\ At(m, 4) = At(m, 3) + 2
         /\ m.host \in 0..16 /\ m.length \in Nat
<1>1. /\ m.dst \in {4, 16} /\ m.host \in {0, 4, 16} /\ m.length \in Nat
      /\ \A k \in 0..4 : At(m, k) \in Nat
  BY KindFacts
<1>2. /\ At(m, 0) = 24 + m.dst /\ At(m, 1) = At(m, 0) + 4 + m.host /\ At(m, 2) = At(m, 1) + 13
      /\ At(m, 3) = At(m, 2) + 1 /\ At(m, 4) = At(m, 3) + 2
  BY <1>1 DEF At
<1> QED
  BY <1>1, <1>2

LEMMA HostIs ==
  ASSUME NEW m \in Format!MessageKinds, NEW size \in Nat, NEW b, Packed(b, m, size), NEW n,
         NEW x, \A i \in 1..n : x[i] = b[i], AsMuch(m, size, n)
  PROVE  /\ Format!AddressLength(x) = m.dst
         /\ At(m, 0) + 4 <= n => Format!HostLengthAt(x, At(m, 0)) = HostRead(m, size)
         /\ (At(m, 0) + 4 <= n /\ GpsFrom(m, size) <= n /\ HostRead(m, size) > 0)
              <=> (m.host > 0 /\ At(m, 1) <= size)
         /\ HostRead(m, size) > 0 => Format!ValueAt(x, At(m, 0) + 1, "host") = m.number
<1> DEFINE F == At(m, 0)
           E == At(m, 1)
           h == HostRead(m, size)
           g == GpsFrom(m, size)
<1>1. /\ F \in Nat /\ F >= 28 /\ E = F + 4 + m.host /\ m.host \in 0..16 /\ F <= n /\ n <= size
      /\ n \in Nat /\ (F + 4 <= size => F + 4 <= n) /\ (g + 0 <= size => g + 0 <= n)
      /\ g = F + 4 + h /\ h = IF E <= size THEN m.host ELSE 0
  BY PlacesAre DEF AsMuch, GpsFrom, HostRead
<1>2. /\ \A i \in 1..F : b[i] = LaidOut(m, i)
      /\ E <= size => \A i \in 1..E : b[i] = LaidOut(m, i)
      /\ E > size => \A i \in 1..size : i > F => b[i] = Format!Zero
  <2>1. 0 \in 0..3 /\ 1 \in 0..3 /\ 0 + 1 = 1 /\ F <= size
    BY <1>1
  <2> QED
    BY <2>1 DEF Packed
<1>3. /\ \A i \in 1..F : LaidOut(m, i) = Cell("fixed", m)
      /\ \A i \in 1..E :
           i > F => LaidOut(m, i) = IF m.host = 0 THEN Format!Zero ELSE Cell("host", m)
  BY <1>1 DEF LaidOut
<1> HIDE DEF F, E, h, g
<1>4. x[1] = Cell("fixed", m)
  <2>1. 1 \in 1..F /\ 1 \in 1..n
    BY <1>1
  <2> QED
    BY <1>2, <1>3, <2>1
<1>5. Format!Zero.field = "zero" /\ \A f : Cell(f, m).field = f /\ Cell(f, m).of = m
  BY DEF Format!Zero, Cell
<1>6. F + 4 <= n => Format!HostLengthAt(x, F) = h
  <2> SUFFICES ASSUME F + 4 <= n PROVE Format!HostLengthAt(x, F) = h
    OBVIOUS
  <2>1. x[F + 4] = b[F + 4] /\ F + 4 \in 1..size /\ F + 4 > F
    BY <1>1
  <2>2. CASE E <= size
    <3>1. F + 4 \in 1..E
      BY <1>1
    <3>2. x[F + 4] = IF m.host = 0 THEN Format!Zero ELSE Cell("host", m)
      BY <1>2, <1>3, <2>1, <2>2, <3>1
    <3> QED
      BY <1>1, <1>5, <2>2, <3>2 DEF Format!HostLengthAt
  <2>3. CASE ~(E <= size)
    <3>1. x[F + 4] = Format!Zero
      BY <1>1, <1>2, <2>1, <2>3
    <3> QED
      BY <1>1, <1>5, <2>3, <3>1 DEF Format!HostLengthAt
  <2> QED
    BY <2>2, <2>3
<1>7. (F + 4 <= n /\ g <= n /\ h > 0) <=> (m.host > 0 /\ E <= size)
  BY <1>1
<1>8. h > 0 => Format!ValueAt(x, F + 1, "host") = m.number
  <2> SUFFICES ASSUME h > 0 PROVE Format!ValueAt(x, F + 1, "host") = m.number
    OBVIOUS
  <2>1. E <= size /\ m.host # 0 /\ F + 1 \in 1..E /\ F + 1 > F /\ F + 1 \in 1..n
    BY <1>1
  <2>2. x[F + 1] = Cell("host", m)
    BY <1>2, <1>3, <2>1
  <2> QED
    BY <1>5, <2>2 DEF Format!ValueAt
<1> QED
  BY <1>4, <1>5, <1>6, <1>7, <1>8 DEF Format!AddressLength, F, E, h, g

LEMMA GpsIs ==
  ASSUME NEW m \in Format!MessageKinds, NEW size \in Nat, NEW b, Packed(b, m, size), NEW n,
         NEW x, \A i \in 1..n : x[i] = b[i], AsMuch(m, size, n)
  PROVE  LET g == GpsFrom(m, size)
         IN (IF g + 13 <= n THEN Format!ValueAt(x, g + 13, "gps") ELSE Format!None)
              = IF At(m, 2) <= size THEN m.number ELSE Format!None
<1> DEFINE F == At(m, 0)
           E == At(m, 1)
           G == At(m, 2)
           h == HostRead(m, size)
           g == GpsFrom(m, size)
<1>1. /\ F \in Nat /\ E = F + 4 + m.host /\ m.host \in 0..16 /\ G = E + 13 /\ n <= size
      /\ n \in Nat /\ (g + 13 <= size => g + 13 <= n)
      /\ g = F + 4 + h /\ h = IF E <= size THEN m.host ELSE 0
  BY PlacesAre DEF AsMuch, GpsFrom, HostRead
<1>2. /\ G <= size => \A i \in 1..G : b[i] = LaidOut(m, i)
      /\ F <= size /\ E > size => \A i \in 1..size : i > F => b[i] = Format!Zero
  <2>1. 0 \in 0..3 /\ 2 \in 0..3 /\ 0 + 1 = 1
    OBVIOUS
  <2> QED
    BY <2>1 DEF Packed
<1>3. LaidOut(m, G) = Cell("gps", m)
  BY <1>1 DEF LaidOut
<1>4. Format!Zero.field = "zero" /\ Cell("gps", m).field = "gps" /\ Cell("gps", m).of = m
  BY DEF Format!Zero, Cell
<1>5. F <= size
  BY <1>1 DEF AsMuch
<1> HIDE DEF F, E, G, h, g
<1>6. CASE E <= size
  <2>1. g + 13 = G /\ (G <= n <=> G <= size)
    BY <1>1, <1>6
  <2>2. G <= n => x[G] = Cell("gps", m)
    <3>1. G <= n => G \in 1..n /\ G \in 1..G
      BY <1>1
    <3> QED
      BY <1>2, <1>3, <2>1, <3>1
  <2>3. G <= n => Format!ValueAt(x, g + 13, "gps") = m.number
    BY <1>4, <2>1, <2>2 DEF Format!ValueAt
  <2> QED
    BY <2>1, <2>3 DEF g, G
<1>7. CASE ~(E <= size)
  <2>1. ~(G <= size) /\ E > size
    BY <1>1, <1>7
  <2>2. g + 13 <= n => Format!ValueAt(x, g + 13, "gps") = Format!None
    <3>1. g + 13 <= n => g + 13 \in 1..n /\ g + 13 \in 1..size /\ g + 13 > F
      BY <1>1, <1>7
    <3>2. g + 13 <= n => x[g + 13] = Format!Zero
      BY <1>2, <1>5, <2>1, <3>1
    <3> QED
      BY <1>4, <3>2 DEF Format!ValueAt
  <2> QED
    BY <2>1, <2>2 DEF g, G
<1> QED
  BY <1>6, <1>7

\* Where the payload is found, and how long it is.
PayloadFound(m, size, n, x) ==
  LET g == GpsFrom(m, size)
      length == Format!LengthAt(x, g + 14)
  IN /\ (g + 16 <= n) <=> (At(m, 4) <= size)
     /\ (g + 16 <= n) => g = At(m, 1)
     /\ (g + 16 <= n) => length = IF Whole(m, size) THEN m.length ELSE 0
     /\ (g + 16 <= n) => ((length # 0 /\ g + 16 + length <= n) <=> Whole(m, size))
     /\ Whole(m, size) =>
          /\ x[g + 14].field = "type" /\ x[g + 14].of.kind = m.kind
          /\ SubSeq(x, g + 17, g + 16 + m.length) = Format!Cells("payload", m, m.length)

LEMMA PayloadIs ==
  ASSUME NEW m \in Format!MessageKinds, NEW size \in Nat, NEW b, Packed(b, m, size), NEW n,
         NEW x, \A i \in 1..n : x[i] = b[i], AsMuch(m, size, n)
  PROVE  PayloadFound(m, size, n, x)
<1> DEFINE F == At(m, 0)
           E == At(m, 1)
           T == At(m, 3)
           L == At(m, 4)
           h == HostRead(m, size)
           g == GpsFrom(m, size)
           length == Format!LengthAt(x, g + 14)
<1>1. /\ F \in Nat /\ E = F + 4 + m.host /\ m.host \in 0..16 /\ T = E + 14 /\ L = T + 2 /\ n <= size
      /\ n \in Nat /\ (g + 16 <= size => g + 16 <= n) /\ m.length \in Nat
      /\ g = F + 4 + h /\ h = (IF E <= size THEN m.host ELSE 0) /\ At(m, 2) = E + 13 /\ F <= size
  BY PlacesAre DEF AsMuch, GpsFrom, HostRead
<1>2. /\ T <= size => \A i \in 1..T : b[i] = LaidOut(m, i)
      /\ L <= size =>
           IF Whole(m, size)
           THEN b[T + 1] = Cell("length", m) /\ \A i \in 1..m.length : b[L + i] = Cell("payload", m)
           ELSE b[T + 1] = Format!Zero
  <2>1. 3 \in 0..3
    OBVIOUS
  <2> QED
    BY <2>1 DEF Packed
<1>3. LaidOut(m, T) = Cell("type", m)
  BY <1>1 DEF LaidOut
<1>4. Format!Zero.field = "zero" /\ \A f : Cell(f, m).field = f /\ Cell(f, m).of = m
  BY DEF Format!Zero, Cell
<1>5. /\ Whole(m, size) => L + m.length <= n /\ L <= size /\ m.length > 0
      /\ Whole(m, size) \in BOOLEAN
  BY <1>1 DEF AsMuch, Whole
<1> HIDE DEF F, E, T, L, h, g
<1>6. /\ g + 16 <= n <=> L <= size
      /\ g + 16 <= n => g = E
  BY <1>1
<1>7. ASSUME g + 16 <= n PROVE length = IF Whole(m, size) THEN m.length ELSE 0
  <2>1. g + 14 + 1 = T + 1 /\ T + 1 \in 1..n /\ L <= size
    BY <1>1, <1>6, <1>7
  <2>2. x[g + 14 + 1] = IF Whole(m, size) THEN Cell("length", m) ELSE Format!Zero
    BY <1>2, <2>1
  <2> QED
    BY <1>4, <2>2 DEF Format!LengthAt
<1>8. g + 16 <= n => ((length # 0 /\ g + 16 + length <= n) <=> Whole(m, size))
  <2> HIDE DEF length
  <2>1. CASE g + 16 <= n /\ Whole(m, size)
    BY <1>1, <1>5, <1>6, <1>7, <2>1
  <2>2. CASE g + 16 <= n /\ ~Whole(m, size)
    BY <1>7, <2>2
  <2> QED
    BY <2>1, <2>2
<1>9. ASSUME Whole(m, size)
      PROVE  /\ x[g + 14].field = "type" /\ x[g + 14].of.kind = m.kind
             /\ SubSeq(x, g + 17, g + 16 + m.length) = Format!Cells("payload", m, m.length)
  <2>1. /\ L <= size /\ L + m.length <= n /\ g + 14 = T /\ T \in 1..n /\ T \in 1..T /\ T <= size
        /\ g + 17 = L + 1 /\ g + 16 + m.length = L + m.length /\ L \in Nat
    BY <1>1, <1>5, <1>6, <1>9
  <2>2. x[g + 14] = Cell("type", m)
    BY <1>2, <1>3, <2>1
  <2> DEFINE s == SubSeq(x, L + 1, L + m.length)
             p == Format!Cells("payload", m, m.length)
  <2>3. ASSUME NEW i \in 1..m.length PROVE x[L + i] = Cell("payload", m)
    <3>1. L + i \in 1..n
      BY <1>1, <2>1
    <3> QED
      BY <1>2, <1>9, <2>1, <3>1
  <2>4. \A j \in (L + 1)..(L + m.length) : x[j] \in Bytes
    <3>1. SUFFICES ASSUME NEW j \in (L + 1)..(L + m.length) PROVE x[j] \in Bytes
      OBVIOUS
    <3>2. j - L \in 1..m.length /\ L + (j - L) = j
      BY <1>1, <2>1
    <3>3. Cell("payload", m) \in Bytes
      BY DEF Cell, Bytes, Fields
    <3> QED
      BY <2>3, <3>2, <3>3
  <2>5. /\ s \in Seq(Bytes) /\ Len(s) = m.length
        /\ \A i \in 1..m.length : s[i] = x[L + i]
    <3>1. PICK lo \in Int, hi \in Int : lo = L + 1 /\ hi = L + m.length
      BY <1>1, <2>1
    <3>2. \A j \in lo..hi : x[j] \in Bytes
      BY <2>4, <3>1
    <3>3. /\ SubSeq(x, lo, hi) \in Seq(Bytes)
          /\ Len(SubSeq(x, lo, hi)) = IF lo <= hi THEN hi - lo + 1 ELSE 0
          /\ \A i \in 1..(hi - lo + 1) : SubSeq(x, lo, hi)[i] = x[lo + i - 1]
      BY <3>2, SubSeqProperties
    <3>4. s = SubSeq(x, lo, hi)
      BY <3>1
    <3> HIDE DEF s
    <3>5. /\ s \in Seq(Bytes) /\ Len(s) = IF lo <= hi THEN hi - lo + 1 ELSE 0
          /\ \A i \in 1..(hi - lo + 1) : s[i] = x[lo + i - 1]
      BY <3>3, <3>4
    <3>6. hi - lo + 1 = m.length /\ Len(s) = m.length
      <4>1. hi - lo + 1 = m.length /\ (lo <= hi <=> m.length > 0) /\ m.length \in Nat
        BY <1>1, <2>1, <3>1
      <4>2. Len(s) = IF lo <= hi THEN hi - lo + 1 ELSE 0
        BY <3>5
      <4> QED
        BY <4>1, <4>2
    <3>7. ASSUME NEW i \in 1..m.length PROVE s[i] = x[L + i]
      <4>1. lo + i - 1 = L + i /\ i \in 1..(hi - lo + 1)
        BY <2>1, <3>1, <3>6
      <4> QED
        BY <3>5, <4>1
    <3> QED
      BY <3>5, <3>6, <3>7
  <2>6. /\ p \in Seq(Bytes) /\ Len(p) = m.length
        /\ \A i \in 1..m.length : p[i] = Cell("payload", m)
    <3>1. "payload" \in Fields
      BY DEF Fields
    <3> QED
      BY <1>1, <3>1, CellsAre
  <2> HIDE DEF s, p
  <2>7. s = p
    <3>1. Len(s) = Len(p) /\ \A i \in 1..Len(s) : s[i] = p[i]
      BY <2>3, <2>5, <2>6
    <3> QED
      BY <2>5, <2>6, <3>1, SeqEqual
  <2> QED
    BY <1>4, <2>1, <2>2, <2>7 DEF s, p
<1> QED
  BY <1>6, <1>7, <1>8, <1>9 DEF PayloadFound, g, L, E

\* What Unpack makes of them.
LEMMA UnpackIs ==
  ASSUME NEW m \in Format!MessageKinds, NEW size \in Nat, NEW b, Packed(b, m, size), NEW n,
         NEW x, \A i \in 1..n : x[i] = b[i], AsMuch(m, size, n),
         NEW old, At(m, 4) <= size \/ old.length = 0
  PROVE  LET u == Format!Unpack(x, n, old)
             g == GpsFrom(m, size)
         IN /\ Format!Shown(u) = Format!Expected(m, size)
            /\ Whole(m, size) => u.type = m.kind
            /\ u.length = IF Whole(m, size) THEN m.length ELSE 0
            /\ u.header = IF ~(At(m, 0) + 4 <= n) THEN At(m, 0)
                          ELSE IF g + 16 <= n THEN g + 16
                          ELSE IF g + 14 <= n THEN old.header
                          ELSE IF g + 13 <= n THEN g + 13
                          ELSE g
<1> DEFINE F == At(m, 0)
           h == HostRead(m, size)
           g == GpsFrom(m, size)
           headed == F + 4 <= n
           len == Format!LengthAt(x, g + 14)
           whole == len # 0 /\ g + 16 + len <= n
           u == Format!Unpack(x, n, old)
<1>1. /\ F \in Nat /\ n \in Nat /\ n <= size /\ h \in Nat /\ g = F + 4 + h
      /\ F = 24 + m.dst /\ m.length \in Nat /\ At(m, 4) \in Nat
      /\ (F + 4 <= size => headed) /\ (g + 0 <= size => g + 0 <= n)
      /\ At(m, 1) = F + 4 + m.host /\ At(m, 2) = At(m, 1) + 13 /\ At(m, 4) = At(m, 1) + 16
      /\ m.host \in Nat /\ At(m, 1) \in Nat /\ At(m, 2) \in Nat
      /\ h = IF At(m, 1) <= size THEN m.host ELSE 0
  BY PlacesAre DEF AsMuch, GpsFrom, HostRead
<1>2. /\ Format!AddressLength(x) = m.dst
      /\ headed => Format!HostLengthAt(x, F) = h
      /\ (headed /\ g <= n /\ h > 0) <=> (m.host > 0 /\ At(m, 1) <= size)
      /\ h > 0 => Format!ValueAt(x, F + 1, "host") = m.number
  BY HostIs
<1>3. (IF g + 13 <= n THEN Format!ValueAt(x, g + 13, "gps") ELSE Format!None)
        = IF At(m, 2) <= size THEN m.number ELSE Format!None
  BY GpsIs
<1>4. /\ (g + 16 <= n) <=> (At(m, 4) <= size)
      /\ (g + 16 <= n) => g = At(m, 1)
      /\ (g + 16 <= n) => len = IF Whole(m, size) THEN m.length ELSE 0
      /\ (g + 16 <= n) => (whole <=> Whole(m, size))
      /\ Whole(m, size) =>
           /\ x[g + 14].field = "type" /\ x[g + 14].of.kind = m.kind
           /\ SubSeq(x, g + 17, g + 16 + m.length) = Format!Cells("payload", m, m.length)
  <2>1. PayloadFound(m, size, n, x)
    BY PayloadIs
  <2> QED
    BY <2>1 DEF PayloadFound
<1>5. Whole(m, size) <=> m.length > 0 /\ At(m, 4) + m.length <= size
  BY DEF Whole
<1> DEFINE hostLen == IF headed THEN Format!HostLengthAt(x, F) ELSE 0
           gpsAt == F + 4 + hostLen
           hostReads == headed /\ gpsAt <= n
           gpsReads == hostReads /\ gpsAt + 13 <= n
           typeReads == gpsReads /\ gpsAt + 14 <= n
           lenReads == typeReads /\ gpsAt + 16 <= n
           length == IF lenReads THEN Format!LengthAt(x, gpsAt + 14) ELSE 0
           all == length # 0 /\ gpsAt + 16 + length <= n
<1>6. /\ u.header = CASE lenReads  -> gpsAt + 16
                      [] typeReads /\ ~lenReads -> old.header
                      [] gpsReads  /\ ~typeReads -> gpsAt + 13
                      [] hostReads /\ ~gpsReads -> gpsAt
                      [] headed  /\ ~hostReads -> F + 4
                      [] OTHER -> F
      /\ u.host = IF hostReads /\ hostLen > 0 THEN Format!ValueAt(x, F + 1, "host") ELSE Format!None
      /\ u.gps = IF gpsReads THEN Format!ValueAt(x, gpsAt + 13, "gps") ELSE Format!None
      /\ u.type = IF typeReads
                  THEN IF x[gpsAt + 14].field = "type" THEN x[gpsAt + 14].of.kind ELSE "data"
                  ELSE old.type
      /\ u.length = IF ~lenReads THEN old.length ELSE IF all THEN length ELSE 0
      /\ u.payload = IF ~lenReads THEN old.payload
                     ELSE IF all THEN SubSeq(x, gpsAt + 17, gpsAt + 16 + length) ELSE << >>
  <2>1. 24 + Format!AddressLength(x) = F
    BY <1>1, <1>2
  <2> QED
    BY <2>1 DEF Format!Unpack
<1> HIDE DEF u, F, h, g, headed, len
<1>7. /\ ~headed => hostLen = 0
      /\ headed => gpsAt = g /\ hostLen = h
  BY <1>1, <1>2
<1>8. headed => g <= n
  BY <1>1 DEF headed
<1>9. g + 13 <= n => headed
  BY <1>1 DEF headed
<1>10. /\ hostReads <=> headed
       /\ gpsReads <=> g + 13 <= n
       /\ typeReads <=> g + 14 <= n
       /\ lenReads <=> g + 16 <= n
  <2>1. g \in Nat
    BY <1>1
  <2>2. hostReads <=> headed
    BY <1>7, <1>8
  <2>3. gpsReads <=> g + 13 <= n
    BY <1>7, <1>9, <2>2
  <2>4. (g + 14 <= n => g + 13 <= n) /\ (g + 16 <= n => g + 14 <= n)
    BY <1>1, <2>1
  <2>5. typeReads <=> g + 14 <= n
    BY <1>7, <1>9, <2>3, <2>4
  <2>6. lenReads <=> g + 16 <= n
    BY <1>7, <1>9, <2>4, <2>5
  <2> QED
    BY <2>2, <2>3, <2>5, <2>6
<1>11. u.host = IF m.host > 0 /\ At(m, 1) <= size THEN m.number ELSE Format!None
  <2>1. (hostReads /\ hostLen > 0) <=> (headed /\ g <= n /\ h > 0)
    BY <1>7, <1>8, <1>10
  <2> QED
    BY <1>2, <1>6, <2>1
<1>12. u.gps = IF At(m, 2) <= size THEN m.number ELSE Format!None
  <2>1. gpsReads => gpsAt = g
    BY <1>7
  <2> QED
    BY <1>3, <1>6, <1>10, <2>1
<1>13. u.length = IF Whole(m, size) THEN m.length ELSE 0
  <2>1. CASE g + 16 <= n
    <3>1. lenReads /\ gpsAt = g
      BY <1>7, <1>10, <2>1
    <3>2. length = len /\ (all <=> whole)
      BY <3>1 DEF len
    <3> QED
      BY <1>4, <1>6, <2>1, <3>1, <3>2
  <2>2. CASE ~(g + 16 <= n)
    <3>1. u.length = 0 /\ ~Whole(m, size)
      BY <1>1, <1>4, <1>5, <1>6, <1>10, <2>2
    <3> QED
      BY <3>1
  <2> QED
    BY <2>1, <2>2
<1>14. Whole(m, size) => u.type = m.kind /\ u.payload = Format!Cells("payload", m, m.length)
  <2> SUFFICES ASSUME Whole(m, size)
               PROVE  u.type = m.kind /\ u.payload = Format!Cells("payload", m, m.length)
    OBVIOUS
  <2>1. At(m, 4) <= size
    BY <1>1, <1>5
  <2>2. g + 16 <= n /\ lenReads /\ typeReads /\ gpsAt = g
    BY <1>4, <1>7, <1>10, <2>1
  <2>3. length = m.length /\ all
    <3>1. length = len
      BY <2>2 DEF len
    <3> QED
      BY <1>4, <2>2, <3>1
  <2> QED
    BY <1>4, <1>6, <2>2, <2>3
<1>15. Format!Shown(u) = Format!Expected(m, size)
  <2> DEFINE end(k) == Format!FixedSize(m) + 4 + m.host + (IF k > 1 THEN 13 ELSE 0)
                         + (IF k > 2 THEN 3 ELSE 0)
  <2>1. end(1) = At(m, 1) /\ end(2) = At(m, 2) /\ end(3) = At(m, 4)
    BY <1>1 DEF Format!FixedSize, F
  <2>2. Format!Expected(m, size) =
          [host |-> IF m.host > 0 /\ end(1) <= size THEN m.number ELSE Format!None,
           gps  |-> IF end(2) <= size THEN m.number ELSE Format!None,
           data |-> IF m.length > 0 /\ end(3) + m.length <= size
                    THEN <<m.kind, Format!Cells("payload", m, m.length)>> ELSE << >>]
    BY DEF Format!Expected
  <2> HIDE DEF end
  <2>3. Format!Shown(u) =
          [host |-> u.host, gps |-> u.gps,
           data |-> IF u.length > 0 THEN <<u.type, u.payload>> ELSE << >>]
    BY DEF Format!Shown
  <2>4. u.length > 0 <=> Whole(m, size)
    BY <1>1, <1>5, <1>13
  <2> QED
    BY <1>5, <1>11, <1>12, <1>14, <2>1, <2>2, <2>3, <2>4
<1>16. u.header = IF ~headed THEN F
                  ELSE IF g + 16 <= n THEN g + 16
                  ELSE IF g + 14 <= n THEN old.header
                  ELSE IF g + 13 <= n THEN g + 13
                  ELSE g
  <2> HIDE DEF gpsAt, hostReads, gpsReads, typeReads, lenReads
  <2>1. /\ g \in Nat /\ (g + 16 <= n => g + 14 <= n) /\ (g + 14 <= n => g + 13 <= n)
    BY <1>1
  <2>2. CASE ~headed
    BY <1>6, <1>9, <1>10, <2>1, <2>2
  <2>3. CASE g + 16 <= n
    BY <1>6, <1>7, <1>9, <1>10, <2>1, <2>3
  <2>4. CASE g + 14 <= n /\ ~(g + 16 <= n)
    BY <1>6, <1>7, <1>9, <1>10, <2>1, <2>4
  <2>5. CASE g + 13 <= n /\ ~(g + 14 <= n)
    BY <1>6, <1>7, <1>9, <1>10, <2>1, <2>5
  <2>6. CASE headed /\ ~(g + 13 <= n)
    BY <1>6, <1>7, <1>9, <1>10, <2>1, <2>6
  <2> QED
    BY <2>2, <2>3, <2>4, <2>5, <2>6
<1> QED
  BY <1>13, <1>14, <1>15, <1>16 DEF u, F, g, headed

\* A line converted from the binary record is that of the text log.
LEMMA ShownAndConverted ==
  ASSUME NEW m \in Format!MessageKinds, NEW size \in Nat, size >= At(m, 0), NEW checksum,
         ~Format!CutInLength(m, size), NEW old, At(m, 4) <= size \/ old.length = 0
  PROVE  LET b == Format!Pack(m, size, checksum)
             u == Format!Unpack(b, size, old)
         IN /\ Format!Shown(u) = Format!Expected(m, size)
            /\ Format!Convert(b, u) = Format!Expected(m, size)
            /\ Whole(m, size) => u.type = m.kind /\ u.length = m.length
<1> DEFINE b == Format!Pack(m, size, checksum)
           u == Format!Unpack(b, size, old)
           F == At(m, 0)
           g == GpsFrom(m, size)
           n == Format!RecordLength(u)
<1>1. Packed(b, m, size)
  BY PackIs
<1>2. /\ F \in Nat /\ F >= 28 /\ g \in Nat /\ g >= F + 4 /\ (F + 4 <= size => g <= size)
      /\ g = F + 4 + HostRead(m, size) /\ F = 24 + m.dst /\ m.length \in Nat /\ At(m, 4) \in Nat
      /\ HostRead(m, size) = (IF F + 4 + m.host <= size THEN m.host ELSE 0) /\ m.host \in Nat
  BY PlacesAre DEF GpsFrom, HostRead
<1>3. size # g + 14 /\ size # g + 15
  <2>1. size - (F + 18 + HostRead(m, size)) \notin {0, 1}
    BY <1>2 DEF Format!CutInLength, Format!FixedSize
  <2> QED
    BY <1>2, <2>1
<1>4. Whole(m, size) <=> m.length > 0 /\ At(m, 4) + m.length <= size
  BY DEF Whole
<1>5. AsMuch(m, size, size)
  BY <1>4 DEF AsMuch
<1>6. /\ Format!Shown(u) = Format!Expected(m, size)
      /\ Whole(m, size) => u.type = m.kind
      /\ u.length = IF Whole(m, size) THEN m.length ELSE 0
      /\ u.header = IF ~(F + 4 <= size) THEN F
                    ELSE IF g + 16 <= size THEN g + 16
                    ELSE IF g + 14 <= size THEN old.header
                    ELSE IF g + 13 <= size THEN g + 13
                    ELSE g
  <2> HIDE DEF b
  <2>1. \A i \in 1..size : b[i] = b[i]
    OBVIOUS
  <2> QED
    BY <1>1, <1>5, <2>1, UnpackIs
<1>7. PayloadFound(m, size, size, b)
  <2> HIDE DEF b
  <2>1. \A i \in 1..size : b[i] = b[i]
    OBVIOUS
  <2> QED
    BY <1>1, <1>5, <2>1, PayloadIs
<1>8. g + 16 <= size => g + 16 = At(m, 4)
  <2>1. (g + 16 <= size) => g = At(m, 1)
    BY <1>7 DEF PayloadFound
  <2> QED
    BY <2>1, PlacesAre
<1>9. (g + 16 <= size) <=> (At(m, 4) <= size)
  BY <1>7 DEF PayloadFound
<1>10. n = u.header + u.length
  BY DEF Format!RecordLength
<1> HIDE DEF b, u, F, g, n
<1>11. n \in Nat /\ F <= n /\ n <= size
  <2>1. CASE ~(F + 4 <= size)
    BY <1>2, <1>4, <1>6, <1>9, <1>10, <2>1 DEF F
  <2>2. CASE F + 4 <= size /\ g + 16 <= size
    BY <1>2, <1>4, <1>6, <1>8, <1>9, <1>10, <2>2
  <2>3. CASE F + 4 <= size /\ ~(g + 16 <= size)
    BY <1>2, <1>3, <1>4, <1>6, <1>9, <1>10, <2>3
  <2> QED
    BY <2>1, <2>2, <2>3
<1>12. AsMuch(m, size, n)
  <2>1. F + 4 <= size => F + 4 <= n
    BY <1>2, <1>3, <1>4, <1>6, <1>9, <1>10
  <2>2. ASSUME NEW d \in {0, 13, 14, 16}, g + d <= size PROVE g + d <= n
    <3>1. F + 4 <= size /\ d \in Nat /\ d <= 16
      BY <1>2, <2>2
    <3>2. CASE g + 16 <= size
      BY <1>2, <1>4, <1>6, <1>10, <3>1, <3>2
    <3>3. CASE ~(g + 16 <= size) /\ g + 13 <= size
      BY <1>2, <1>3, <1>4, <1>6, <1>9, <1>10, <2>2, <3>1, <3>3
    <3>4. CASE ~(g + 13 <= size)
      BY <1>2, <1>3, <1>4, <1>6, <1>9, <1>10, <2>2, <3>1, <3>4
    <3> QED
      BY <3>2, <3>3, <3>4
  <2>3. Whole(m, size) => At(m, 4) + m.length <= n
    BY <1>2, <1>4, <1>6, <1>8, <1>9, <1>10
  <2> QED
    BY <1>11, <2>1, <2>2, <2>3 DEF AsMuch, F, g
<1>13. Format!Convert(b, u) = Format!Expected(m, size)
  <2> DEFINE z == Format!Zeros(n)
             y == SubSeq(b \o z, 1, n)
  <2>1. b \in Seq(Bytes) /\ Len(b) = size
    BY <1>1 DEF Packed
  <2>2. z \in Seq(Bytes) /\ Len(z) = n
    BY <1>11, ZerosAre
  <2> HIDE DEF z
  <2>3. /\ b \o z \in Seq(Bytes) /\ Len(b \o z) = size + n
        /\ \A i \in 1..(size + n) : (b \o z)[i] = IF i <= size THEN b[i] ELSE z[i - size]
    BY <2>1, <2>2, ConcatProperties
  <2>4. \A i \in 1..n : y[i] = b[i]
    <3>1. \A i \in 1..n : (b \o z)[i] = b[i] /\ (b \o z)[i] \in Bytes
      BY <1>11, <2>1, <2>3
    <3>2. PICK s : s = b \o z
      OBVIOUS
    <3>3. \A i \in 1..n : s[i] = b[i] /\ s[i] \in Bytes
      BY <3>1, <3>2
    <3>4. PICK lo \in Int : lo = 1
      OBVIOUS
    <3>5. \A i \in 1..(n - lo + 1) : SubSeq(s, lo, n)[i] = s[lo + i - 1]
      BY <1>11, <3>3, <3>4, SubSeqProperties
    <3>6. y = SubSeq(s, lo, n)
      BY <3>2, <3>4
    <3> HIDE DEF y
    <3>7. ASSUME NEW i \in 1..n PROVE y[i] = b[i]
      <4>1. i \in 1..(n - lo + 1) /\ lo + i - 1 = i
        BY <1>11, <3>4
      <4> QED
        BY <3>3, <3>5, <3>6, <4>1
    <3> QED
      BY <3>7
  <2>5. Format!Convert(b, u) = Format!Shown(Format!Unpack(y, n, Format!Fresh))
    BY <1>2, <1>11 DEF Format!Convert, n, z
  <2>6. Format!Fresh.length = 0
    BY DEF Format!Fresh
  <2> HIDE DEF y
  <2>7. PICK fresh : fresh = Format!Fresh
    OBVIOUS
  <2>8. Format!Shown(Format!Unpack(y, n, fresh)) = Format!Expected(m, size)
    <3>1. fresh.length = 0
      BY <2>6, <2>7
    <3> QED
      BY <1>1, <1>12, <2>4, <3>1, UnpackIs
  <2> QED
    BY <2>5, <2>7, <2>8
<1> QED
  BY <1>6, <1>13 DEF b, u

\* The reports and commands of a message are packed whole.
LEMMA ItemsWhole ==
  ASSUME NEW m \in Format!MessageKinds, NEW size \in Nat, m.kind = "items", Format!Carries(m, size)
  PROVE  Whole(m, size)
<1>1. m.length \in Nat /\ m.length > 0 /\ m.length <= Format!Room(m, size)
  BY FormatAssumption, KindFacts DEF FormatChoices, Format!Carries
<1>2. /\ m.dst \in Nat /\ m.host \in Nat /\ Format!HeaderLength(m) = 44 + m.dst + m.host
      /\ At(m, 4) = 44 + m.dst + m.host
  <2>1. m.dst \in {4, 16} /\ m.host \in {0, 4, 16}
    BY KindFacts
  <2>2. At(m, 4) = At(m, 0) + 4 + m.host + 16 /\ At(m, 0) = 24 + m.dst
    BY PlacesAre, <2>1
  <2> QED
    BY <2>1, <2>2 DEF Format!HeaderLength
<1> QED
  BY <1>1, <1>2 DEF Format!Room, Whole

FormatInv ==
  /\ s1 \in {"UDP", "TCP"} /\ s2 \in {"idle", "sent", "received"}
  /\ s1 = "UDP" /\ s2 # "received" => s4 = Format!Fresh
  /\ s2 # "idle" =>
       /\ s3.message \in Format!MessageKinds /\ s3.size \in Nat
       /\ s3.size >= At(s3.message, 0)
       /\ s1 = "TCP" => s3.size >= 76
       /\ Format!Carries(s3.message, s3.size) /\ ~Format!CutInLength(s3.message, s3.size)
  /\ Format!Received /\ Format!Converted

LEMMA FormatStarts ==
  ASSUME Format!Init
  PROVE  FormatInv
BY DEF Format!Init, FormatInv, Format!Received, Format!Converted

LEMMA FormatStep ==
  ASSUME EndsInLength = FALSE, FormatInv, Format!Next
  PROVE  FormatInv'
<1>1. ASSUME NEW m \in Format!MessageKinds, NEW size \in UdpSizes \cup TcpSizes,
             NEW checksum \in BOOLEAN, Format!Send(m, size, checksum)
      PROVE  FormatInv'
  <2>1. /\ s2 = "idle" /\ s2' = "sent" /\ s1' = s1 /\ s4' = s4
        /\ s3' = [message |-> m, size |-> size, checksum |-> checksum]
        /\ size \in Format!Sizes /\ Format!FixedSize(m) <= size
        /\ Format!Carries(m, size) /\ ~Format!CutInLength(m, size)
    BY <1>1 DEF Format!Send
  <2>2. s3'.message = m /\ s3'.size = size
    BY <2>1
  <2>3. size \in Nat /\ (s1 = "TCP" => size >= 76) /\ s1 \in {"UDP", "TCP"}
        /\ (s1 = "UDP" => s4 = Format!Fresh)
    BY <2>1, FormatAssumption DEF FormatChoices, FormatInv, Format!Sizes
  <2>4. size >= At(m, 0)
    <3>1. At(m, 0) = Format!FixedSize(m) /\ At(m, 0) \in Nat
      BY PlacesAre DEF Format!FixedSize
    <3> QED
      BY <2>1, <2>3, <3>1
  <2>5. Format!Received' /\ Format!Converted'
    BY <2>1 DEF Format!Received, Format!Converted
  <2> QED
    BY <2>1, <2>2, <2>3, <2>4, <2>5 DEF FormatInv
<1>2. ASSUME Format!Receive
      PROVE  FormatInv'
  <2> DEFINE m == s3.message
             size == s3.size
             b == Format!Pack(m, size, s3.checksum)
             u == Format!Unpack(b, size, s4)
  <2>1. /\ s2 = "sent" /\ s2' = "received" /\ s1' = s1 /\ s3' = s3 /\ s4' = u
        /\ s5' = Format!Shown(u) /\ s6' = Format!Convert(b, u)
    BY <1>2 DEF Format!Receive
  <2>2. /\ m \in Format!MessageKinds /\ size \in Nat /\ size >= At(m, 0)
        /\ Format!Carries(m, size) /\ ~Format!CutInLength(m, size)
        /\ (s1 = "TCP" => size >= 76) /\ (s1 = "UDP" => s4 = Format!Fresh) /\ s1 \in {"UDP", "TCP"}
    BY <2>1 DEF FormatInv
  <2>3. At(m, 4) <= size \/ s4.length = 0
    <3> HIDE DEF m, size
    <3>1. CASE s1 = "TCP"
      <4>1. At(m, 0) = 24 + m.dst /\ At(m, 4) = At(m, 0) + 20 + m.host
        BY <2>2, PlacesAre
      <4>2. m.dst \in {4, 16} /\ m.host \in {0, 4, 16}
        BY <2>2, KindFacts
      <4> QED
        BY <2>2, <3>1, <4>1, <4>2
    <3>2. CASE s1 = "UDP"
      BY <2>2, <3>2 DEF Format!Fresh
    <3> QED
      BY <2>2, <3>1, <3>2
  <2>4. /\ Format!Shown(u) = Format!Expected(m, size)
        /\ Format!Convert(b, u) = Format!Expected(m, size)
        /\ Whole(m, size) => u.type = m.kind /\ u.length = m.length
    <3>1. PICK k, n, c, o : k = m /\ n = size /\ c = s3.checksum /\ o = s4
      OBVIOUS
    <3>2. /\ k \in Format!MessageKinds /\ n \in Nat /\ n >= At(k, 0) /\ ~Format!CutInLength(k, n)
          /\ At(k, 4) <= n \/ o.length = 0
      BY <2>2, <2>3, <3>1
    <3>3. LET v == Format!Pack(k, n, c)
              w == Format!Unpack(v, n, o)
          IN /\ Format!Shown(w) = Format!Expected(k, n)
             /\ Format!Convert(v, w) = Format!Expected(k, n)
             /\ Whole(k, n) => w.type = k.kind /\ w.length = k.length
      BY <3>2, ShownAndConverted
    <3> QED
      BY <3>1, <3>3
  <2>5. m.kind = "items" => Whole(m, size)
    BY <2>2, ItemsWhole
  <2> HIDE DEF u, b
  <2>6. Format!Received'
    <3>1. s5' = Format!Expected(s3'.message, s3'.size)
      BY <2>1, <2>4
    <3>2. s3'.message.kind = "items" => s4'.length = s3'.message.length /\ s4'.type = "items"
      BY <2>1, <2>4, <2>5
    <3> QED
      BY <3>1, <3>2 DEF Format!Received
  <2>7. Format!Converted'
    BY <2>1, <2>4 DEF Format!Converted
  <2> QED
    BY <2>1, <2>2, <2>6, <2>7 DEF FormatInv
<1>3. ASSUME Format!Done
      PROVE  FormatInv'
  BY <1>3 DEF Format!Done, FormatInv, Format!Received, Format!Converted
<1> QED
  BY <1>1, <1>2, <1>3 DEF Format!Next

\* A step that leaves the variables alone.
LEMMA FormatStays ==
  ASSUME FormatInv, UNCHANGED others
  PROVE  FormatInv'
<1>1. s1' = s1 /\ s2' = s2 /\ s3' = s3 /\ s4' = s4 /\ s5' = s5 /\ s6' = s6
  BY DEF others
<1>2. Format!Received' /\ Format!Converted'
  BY <1>1 DEF FormatInv, Format!Received, Format!Converted
<1> QED
  BY <1>1, <1>2 DEF FormatInv

\* Logged (MgenMsg::Pack, Unpack, LogRecvEvent and ConvertBinaryLog), for messages that do
\* not end between the payload type and the payload length: there Unpack keeps the length of
\* the header that the object had.
THEOREM FieldsLogged ==
  ASSUME EndsInLength = FALSE
  PROVE  MCSpec => []Logged
<1> DEFINE I == part = "format" => FormatInv
<1>1. MCInit => I
  <2> SUFFICES ASSUME MCInit, part = "format" PROVE FormatInv
    OBVIOUS
  <2> QED
    BY FormatStarts DEF MCInit
<1>2. I /\ [MCNext]_<<part, vars, reporter, others>> => I'
  <2> SUFFICES ASSUME I, [MCNext]_<<part, vars, reporter, others>>, part' = "format"
               PROVE  FormatInv'
    OBVIOUS
  <2>1. part = "format" /\ (Format!Next \/ UNCHANGED others)
    BY DEF MCNext, Windows, Reporting
  <2> QED
    BY <2>1, FormatStep, FormatStays
<1>3. I => Logged
  BY DEF Logged, FormatInv
<1> QED
  BY <1>1, <1>2, <1>3, PTL DEF MCSpec
-------------------------------------------------------------------------------
(***************************************************************************)
(* What is read of a report.  In ReportFormat the buffer is s1, what was   *)
(* given s2, the number of windows s3.                                     *)
(***************************************************************************)

LEMMA StepsIs ==
  ASSUME NEW t \in Int
  PROVE  /\ Encoded!QuantizeTimeValue(t) \in Nat /\ Encoded!QuantizeTimeValue(t) < 256
         /\ \A q \in Nat : Encoded!UnquantizeTimeValue(q) \in Nat
<1>1. /\ Len(TimeTable) \in Nat /\ Len(TimeTable) > 0 /\ Len(TimeTable) <= 256
      /\ DOMAIN TimeTable = 1..Len(TimeTable)
      /\ \A q \in DOMAIN TimeTable : TimeTable[q] \in Nat
  <2>1. TimeTable \in Seq(Nat) /\ Len(TimeTable) > 0 /\ Len(TimeTable) <= 256
    BY ReportAssumption DEF ReportChoices
  <2> QED
    BY <2>1, LenProperties, ElementOfSeq
<1> DEFINE d(q) == Encoded!Abs(TimeTable[q] - t)
           Nearest(q) == \A p \in DOMAIN TimeTable : d(q) <= d(p)
           S == {n \in Nat : \E q \in DOMAIN TimeTable : d(q) = n}
<1>2. \A q \in DOMAIN TimeTable : d(q) \in Nat
  BY <1>1 DEF Encoded!Abs
<1> HIDE DEF d
<1>3. S # {} /\ S \subseteq Nat
  <2>1. 1 \in DOMAIN TimeTable
    BY <1>1
  <2> QED
    BY <1>2, <2>1
<1>4. PICK n \in S : \A k \in S : n <= k
  BY <1>3, LeastOf
<1>5. \E q \in DOMAIN TimeTable : Nearest(q)
  <2>1. PICK q \in DOMAIN TimeTable : d(q) = n
    BY <1>4
  <2> QED
    BY <1>2, <1>4, <2>1
<1>6. Encoded!QuantizeTimeValue(t) = (CHOOSE q \in DOMAIN TimeTable : Nearest(q)) - 1
  BY DEF Encoded!QuantizeTimeValue, d
<1> HIDE DEF Nearest
<1>7. PICK c \in DOMAIN TimeTable : Encoded!QuantizeTimeValue(t) = c - 1
  BY <1>5, <1>6
<1>8. Encoded!QuantizeTimeValue(t) \in Nat /\ Encoded!QuantizeTimeValue(t) < 256
  BY <1>1, <1>7
<1>9. \A q \in Nat : Encoded!UnquantizeTimeValue(q) \in Nat
  BY <1>1 DEF Encoded!UnquantizeTimeValue
<1> QED
  BY <1>8, <1>9

RateOk(rate) == \A i \in 2..7 : ~JustBelow(rate, Encoded!PowerOfTen[i])

\* The power of ten that a rate is at or above.
LEMMA PowerIs ==
  ASSUME NEW rate \in Nat, rate > 0, rate < 1000000
  PROVE  \E e \in 0..5 :
           /\ Encoded!PowerOfTen[e + 1] <= rate /\ rate < Encoded!PowerOfTen[e + 2]
           /\ Encoded!PowerOfTen[e + 2] = 10 * Encoded!PowerOfTen[e + 1]
           /\ Encoded!PowerOfTen[e + 1] \in {1, 10, 100, 1000, 10000, 100000}
           /\ Encoded!Exponent(rate) = e
<1> DEFINE P == Encoded!PowerOfTen
           Above(k) == P[k + 1] <= rate /\ rate < P[k + 2]
<1>1. /\ P[0 + 1] = 1 /\ P[0 + 2] = 10 /\ P[1 + 1] = 10 /\ P[1 + 2] = 100 /\ P[2 + 1] = 100
      /\ P[2 + 2] = 1000 /\ P[3 + 1] = 1000 /\ P[3 + 2] = 10000 /\ P[4 + 1] = 10000
      /\ P[4 + 2] = 100000 /\ P[5 + 1] = 100000 /\ P[5 + 2] = 1000000
  BY SMT DEF Encoded!PowerOfTen
<1>2. /\ Above(0) <=> rate < 10
      /\ Above(1) <=> (10 <= rate /\ rate < 100)
      /\ Above(2) <=> (100 <= rate /\ rate < 1000)
      /\ Above(3) <=> (1000 <= rate /\ rate < 10000)
      /\ Above(4) <=> (10000 <= rate /\ rate < 100000)
      /\ Above(5) <=> 100000 <= rate
  BY <1>1, SMT
<1>3. Encoded!Exponent(rate) = CHOOSE e \in 0..5 : Above(e)
  BY DEF Encoded!Exponent
<1> HIDE DEF Above
<1>4. \A k \in 0..5 : k = 0 \/ k = 1 \/ k = 2 \/ k = 3 \/ k = 4 \/ k = 5
  BY SMT
<1>5. \E e \in 0..5 : Above(e)
  BY <1>2, SMT
<1>6. PICK e \in 0..5 : Above(e) /\ Encoded!Exponent(rate) = e
  BY <1>3, <1>5, SMT
<1>7. /\ P[e + 2] = 10 * P[e + 1] /\ P[e + 1] \in {1, 10, 100, 1000, 10000, 100000}
  <2> HIDE DEF P
  <2> QED
    BY <1>1, <1>4, SMT
<1> QED
  BY <1>6, <1>7, SMT DEF Above

LEMMA RateIs ==
  ASSUME NEW rate \in Nat, rate < 1000000, RateOk(rate)
  PROVE  LET q == Encoded!QuantizeRate(rate)
         IN /\ q \in Nat /\ q < 65536
            /\ 800 * Encoded!Abs(Encoded!UnquantizeRate(q) - rate) <= rate + 800
<1> DEFINE q == Encoded!QuantizeRate(rate)
<1>1. CASE rate = 0
  <2>1. q = 1
    BY <1>1, SMT DEF Encoded!QuantizeRate
  <2>2. Encoded!PowerOfTen[3] \in Int /\ (1 % 16) + 2 = 3 /\ 1 \div 16 = 0
    BY SMT DEF Encoded!PowerOfTen
  <2>3. (0 * Encoded!PowerOfTen[3] + 2048) \div 4096 = 0
    BY <2>2, SMT
  <2>4. Encoded!UnquantizeRate(1) = 0
    BY <2>2, <2>3, SMT DEF Encoded!UnquantizeRate
  <2> HIDE DEF q
  <2> QED
    BY <1>1, <2>1, <2>4, SMT DEF Encoded!Abs, q
<1>2. CASE rate > 0
  <2>1. PICK e \in 0..5 :
           /\ Encoded!PowerOfTen[e + 1] <= rate /\ rate < Encoded!PowerOfTen[e + 2]
           /\ Encoded!PowerOfTen[e + 2] = 10 * Encoded!PowerOfTen[e + 1]
           /\ Encoded!PowerOfTen[e + 1] \in {1, 10, 100, 1000, 10000, 100000}
           /\ Encoded!Exponent(rate) = e
    BY <1>2, PowerIs, SMT
  <2>2. PICK low \in Nat, above \in Nat :
          low = Encoded!PowerOfTen[e + 1] /\ above = Encoded!PowerOfTen[e + 2]
    BY <2>1, SMT
  <2>3. /\ low <= rate /\ rate < above /\ above = 10 * low
        /\ low \in {1, 10, 100, 1000, 10000, 100000}
    BY <2>1, <2>2, SMT
  <2>4. rate + above \div 8192 < above
    <3>1. e + 2 \in 2..7
      BY SMT
    <3>2. ~JustBelow(rate, above)
      BY <2>2, <3>1, SMT DEF RateOk
    <3>3. above \div 8192 \in Int
      BY SMT
    <3> QED
      BY <2>3, <3>2, <3>3, SMT DEF JustBelow
  <2> DEFINE m == (8192 * rate + above) \div (2 * above)
  <2>5. q = ((16 * m) % 65536) + e
    BY <1>2, <2>1, <2>2, SMT DEF Encoded!QuantizeRate
  <2>6. /\ m \in Nat /\ m < 4096 /\ 2 * above * m <= 8192 * rate + above
        /\ 8192 * rate < 2 * above * m + above
    BY <1>2, <2>3, <2>4, SMT
  <2> HIDE DEF m, q
  <2>7. q = 16 * m + e /\ q \in Nat /\ q < 65536 /\ q \div 16 = m /\ q % 16 = e
    BY <2>5, <2>6, SMT
  <2>8. Encoded!UnquantizeRate(q) = (m * above + 2048) \div 4096
    BY <2>2, <2>7, SMT DEF Encoded!UnquantizeRate
  <2>9. PICK r \in Int : r = (m * above + 2048) \div 4096
    BY <2>6, SMT
  <2>10. 4096 * r <= m * above + 2048 /\ m * above + 2048 < 4096 * r + 4096
    BY <2>6, <2>9, SMT
  <2>11. 800 * (r - rate) <= rate + 800 /\ 800 * (rate - r) <= rate + 800
    BY <2>3, <2>6, <2>10, SMT
  <2>12. 800 * Encoded!Abs(r - rate) <= rate + 800
    BY <2>11, SMT DEF Encoded!Abs
  <2> QED
    BY <2>7, <2>8, <2>9, <2>12, SMT DEF q
<1> QED
  BY <1>1, <1>2, SMT

LEMMA QuotientIs ==
  ASSUME NEW a \in Nat, NEW d \in Nat, d > 0
  PROVE  \E x \in Nat : x = d * (a \div d) /\ x <= a /\ a < x + d
<1>1. a \div d \in Nat /\ d * (a \div d) <= a /\ a < d * (a \div d) + d
  BY SMT
<1>2. d * (a \div d) \in Nat
  BY <1>1, SMT
<1> QED
  BY <1>1, <1>2

LEMMA LossIs ==
  ASSUME NEW u, u.of \in Nat, u.of > 0, u.lost \in 0..u.of
  PROVE  LET q == Encoded!QuantizeLoss(u.lost, u.of)
         IN q \in Nat /\ q < 65536 /\ Encoded!LossRead(q, u)
<1> DEFINE q == Encoded!QuantizeLoss(u.lost, u.of)
<1>1. PICK of \in Nat, lost \in Nat : of = u.of /\ lost = u.lost /\ of > 0 /\ lost <= of
  OBVIOUS
<1>2. Encoded!LossRead(q, u) <=> \/ 2 * Encoded!Abs(of * q - 65535 * lost) <= of
                                 \/ q = 1 /\ lost > 0 /\ 2 * 65535 * lost < of
  BY <1>1, SMT DEF Encoded!LossRead
<1>3. CASE lost = 0
  <2>1. q = 0
    BY <1>1, <1>3, SMT DEF Encoded!QuantizeLoss
  <2> HIDE DEF q
  <2> QED
    BY <1>1, <1>2, <1>3, <2>1, SMT DEF Encoded!Abs, q
<1>4. CASE lost > 0
  <2> DEFINE r == (2 * 65535 * lost + of) \div (2 * of)
  <2>1. q = IF r = 0 THEN 1 ELSE r
    BY <1>1, <1>4, SMT DEF Encoded!QuantizeLoss
  <2>2. PICK a \in Nat, d \in Nat : a = 2 * 65535 * lost + of /\ d = 2 * of /\ d > 0
    BY <1>1, SMT
  <2>3. PICK x \in Nat : x = d * (a \div d) /\ x <= a /\ a < x + d
    BY <2>2, QuotientIs
  <2>4. r = a \div d /\ r \in Nat
    BY <2>2, SMT
  <2> HIDE DEF r, q
  <2>5. x = 2 * (of * r)
    BY <2>2, <2>3, <2>4, SMT
  <2>6. r < 65536
    <3>1. ASSUME r >= 65536 PROVE of * r >= of * 65536
      BY <1>1, <2>4, <3>1, SMT
    <3>2. of * r \in Int
      BY <1>1, <2>4, SMT
    <3> QED
      BY <1>1, <2>2, <2>3, <2>4, <2>5, <3>1, <3>2, SMT
  <2>7. CASE r = 0
    <3>1. x = 0 /\ q = 1
      BY <1>1, <2>1, <2>5, <2>7, SMT
    <3>2. 2 * 65535 * lost < of
      <4>1. a < d
        BY <2>3, <3>1
      <4> QED
        BY <1>1, <2>2, <4>1, SMT
    <3>3. Encoded!LossRead(q, u)
      BY <1>2, <1>4, <3>1, <3>2
    <3>4. q \in Nat /\ q < 65536
      BY <3>1, SMT
    <3> QED
      BY <3>3, <3>4, SMT DEF q
  <2>8. CASE r > 0
    <3>1. PICK y \in Int : y = of * r
      BY <1>1, <2>4, SMT
    <3>2. q = r /\ of * q = y
      BY <2>1, <2>8, <3>1, SMT
    <3>3. 2 * (y - 65535 * lost) <= of /\ 2 * (65535 * lost - y) <= of
      BY <1>1, <2>2, <2>3, <2>5, <3>1, SMT
    <3>4. 2 * Encoded!Abs(y - 65535 * lost) <= of
      BY <1>1, <3>1, <3>3, SMT DEF Encoded!Abs
    <3>5. 2 * Encoded!Abs(of * q - 65535 * lost) <= of
      BY <3>2, <3>4, SMT
    <3> QED
      BY <1>2, <2>4, <2>6, <3>2, <3>5, SMT DEF q
  <2> QED
    BY <2>4, <2>7, <2>8, SMT
<1> QED
  BY <1>1, <1>3, <1>4, SMT

\* The places of a buffer.
Places == DOMAIN [i \in 0..Encoded!MAX_LENGTH - 1 |-> 255]
Buffers == [Places -> Nat]

LEMMA PlacesIs == \A i : i \in Places <=> i \in Nat /\ i < 52
<1>1. PICK n \in Nat : n = Encoded!MAX_LENGTH /\ n = 52
  BY DEF Encoded!MAX_LENGTH
<1>2. Places = 0..n - 1
  BY <1>1 DEF Places
<1> QED
  BY <1>1, <1>2

\* Two buffers that differ at most from one place to another.
Alike(b, c, lo, hi) == \A j \in Places : (j < lo \/ hi <= j) => c[j] = b[j]

LEMMA PutByte ==
  ASSUME NEW b \in Buffers, NEW i \in Places, NEW v \in Nat
  PROVE  /\ [b EXCEPT ![i] = v] \in Buffers /\ [b EXCEPT ![i] = v][i] = v
         /\ Alike(b, [b EXCEPT ![i] = v], i, i + 1)
<1>1. \A j \in Places : j \in Nat
  BY PlacesIs
<1> QED
  BY <1>1 DEF Buffers, Alike

LEMMA RestIs ==
  ASSUME NEW v \in Nat, NEW m \in Nat, v < m
  PROVE  v % m = v /\ v \div m = 0
OBVIOUS

LEMMA HalvesAre ==
  ASSUME NEW v \in Nat
  PROVE  /\ (v \div 256) % 256 \in Nat /\ v % 256 \in Nat
         /\ 256 * ((v \div 256) % 256) + (v % 256) = v % 65536
<1>1. PICK a \in Nat, x \in Nat, y \in Nat : v = 65536 * a + 256 * x + y /\ x < 256 /\ y < 256
  <2>1. /\ v \div 65536 \in Nat /\ v % 65536 \in Nat /\ v % 65536 < 65536
        /\ v = 65536 * (v \div 65536) + (v % 65536)
    BY SMT
  <2>2. PICK a \in Nat, w \in Nat : v = 65536 * a + w /\ w < 65536
    BY <2>1, SMT
  <2>3. /\ w \div 256 \in Nat /\ w % 256 \in Nat /\ w % 256 < 256 /\ w \div 256 < 256
        /\ w = 256 * (w \div 256) + (w % 256)
    BY <2>2, SMT
  <2> QED
    BY <2>2, <2>3, SMT
<1>2. v % 256 = y /\ v \div 256 = 256 * a + x
  BY <1>1, SMT
<1>3. (256 * a + x) % 256 = x
  BY <1>1, SMT
<1>4. v % 65536 = 256 * x + y
  BY <1>1, SMT
<1> QED
  BY <1>1, <1>2, <1>3, <1>4, SMT

LEMMA Put8 ==
  ASSUME NEW b \in Buffers, NEW i \in Places, NEW v \in Nat, v < 256
  PROVE  LET c == Encoded!SetUINT8(b, i, v)
         IN c \in Buffers /\ c[i] = v /\ Alike(b, c, i, i + 1)
<1>1. v % 256 = v
  <2>1. PICK m \in Nat : m = 256 /\ v < m
    BY SMT
  <2> QED
    BY <2>1, RestIs
<1>2. PICK r \in Nat : r = v % 256 /\ r = v
  BY <1>1
<1> DEFINE d == [b EXCEPT ![i] = r]
<1>3. Encoded!SetUINT8(b, i, v) = d
  BY <1>2, SMT DEF Encoded!SetUINT8
<1>4. d \in Buffers /\ d[i] = r /\ Alike(b, d, i, i + 1)
  BY PutByte
<1> HIDE DEF d
<1> QED
  BY <1>2, <1>3, <1>4

\* c is b with a number v of two bytes written at i.
Written(b, c, i, v) ==
  /\ c \in Buffers /\ Alike(b, c, i, i + 2)
  /\ c[i] = (v \div 256) % 256 /\ c[i + 1] = v % 256
  /\ Encoded!GetUINT16(c, i) = v % 65536

LEMMA Put16 ==
  ASSUME NEW b \in Buffers, NEW i \in Places, i + 1 \in Places, NEW v \in Nat
  PROVE  Written(b, Encoded!SetUINT16(b, i, v), i, v)
<1> DEFINE c == Encoded!SetUINT16(b, i, v)
<1>1. PICK x \in Nat, y \in Nat : x = (v \div 256) % 256 /\ y = v % 256 /\ 256 * x + y = v % 65536
  BY HalvesAre, SMT
<1> DEFINE d == [b EXCEPT ![i] = x]
           e == [d EXCEPT ![i + 1] = y]
<1>2. c = e
  BY <1>1, SMT DEF Encoded!SetUINT16
<1>3. d \in Buffers /\ d[i] = x /\ Alike(b, d, i, i + 1)
  BY PutByte
<1> HIDE DEF c, d
<1>4. e \in Buffers /\ e[i + 1] = y /\ Alike(d, e, i + 1, i + 1 + 1)
  BY <1>3, PutByte
<1> HIDE DEF e
<1>5. i \in Nat /\ \A j \in Places : j \in Nat
  BY PlacesIs
<1>6. e[i] = x
  BY <1>3, <1>4, <1>5 DEF Alike
<1>7. Alike(b, e, i, i + 2)
  BY <1>3, <1>4, <1>5 DEF Alike
<1>8. Encoded!GetUINT16(e, i) = v % 65536
  BY <1>1, <1>4, <1>6, SMT DEF Encoded!GetUINT16
<1> QED
  BY <1>1, <1>2, <1>4, <1>6, <1>7, <1>8, SMT DEF c, Written

\* A number of four bytes, and c is b with it written at i.
Word(v) == v \in Nat /\ v \div 65536 < 65536
WordWritten(b, c, i, v) ==
  c \in Buffers /\ Encoded!GetUINT32(c, i) = v /\ Alike(b, c, i, i + 4)

LEMMA Put32 ==
  ASSUME NEW b \in Buffers, NEW i \in Nat, i + 4 <= 52, NEW v, Word(v)
  PROVE  WordWritten(b, Encoded!SetUINT32(b, i, v), i, v)
<1> DEFINE c == Encoded!SetUINT32(b, i, v)
<1>1. PICK x \in Nat : x = v \div 65536 /\ 65536 * x + (v % 65536) = v /\ x % 65536 = x
  <2>1. v \in Nat /\ v \div 65536 \in Nat /\ 65536 * (v \div 65536) + (v % 65536) = v
    BY SMT DEF Word
  <2>2. PICK x \in Nat, m \in Nat : x = v \div 65536 /\ m = 65536 /\ x < m
    BY <2>1, SMT DEF Word
  <2>3. x % m = x
    BY <2>2, RestIs
  <2> QED
    BY <2>1, <2>2, <2>3, SMT
<1> DEFINE d == Encoded!SetUINT16(b, i, x)
           e == Encoded!SetUINT16(d, i + 2, v)
<1>2. c = e
  BY <1>1, SMT DEF Encoded!SetUINT32
<1> HIDE DEF c
<1>3. i \in Places /\ i + 1 \in Places /\ i + 2 \in Places /\ i + 2 + 1 \in Places
  BY PlacesIs
<1>4. d \in Buffers /\ Encoded!GetUINT16(d, i) = x /\ Alike(b, d, i, i + 2)
  <2>1. Written(b, d, i, x)
    BY <1>3, Put16
  <2> QED
    BY <1>1, <2>1, SMT DEF Written
<1> HIDE DEF d
<1>5. e \in Buffers /\ Encoded!GetUINT16(e, i + 2) = v % 65536 /\ Alike(d, e, i + 2, i + 2 + 2)
  <2>1. Written(d, e, i + 2, v)
    <3>1. v \in Nat
      BY SMT DEF Word
    <3> QED
      BY <1>3, <1>4, <3>1, Put16
  <2> QED
    BY <2>1, SMT DEF Written
<1> HIDE DEF e
<1>6. \A j \in Places : j \in Nat
  BY PlacesIs
<1>7. Encoded!GetUINT16(e, i) = x
  BY <1>3, <1>4, <1>5, <1>6, SMT DEF Alike, Encoded!GetUINT16
<1>8. Alike(b, e, i, i + 4)
  BY <1>4, <1>5, <1>6, SMT DEF Alike
<1>9. Encoded!GetUINT32(e, i) = v
  BY <1>1, <1>5, <1>7, SMT DEF Encoded!GetUINT32
<1> QED
  BY <1>2, <1>5, <1>8, <1>9 DEF c, WordWritten

\* The first bytes of a report to addresses of a length l, with a flow number if f is 1.
Headed(b, l, f, p) ==
  /\ b \in Buffers /\ l \in {4, 16} /\ f \in {0, 1} /\ p \in Nat /\ p < 16
  /\ b[0] = 16 * (IF l = 4 THEN 1 ELSE 2) + p /\ b[1] = 16 + 2 * l + 4 * f /\ b[2] = 32 * f
  /\ b[3] < 256
WindowAt(l, f) == 8 + 2 * l + 4 * f

LEMMA HeadIs ==
  ASSUME NEW b, NEW l, NEW f, NEW p, Headed(b, l, f, p)
  PROVE  /\ Encoded!GetAddrLen(b) = l /\ Encoded!OffsetSrc(b) = 4 + l
         /\ Encoded!OffsetDstPort(b) = 4 + 2 * l /\ Encoded!OffsetFlowId(b) = 8 + 2 * l
         /\ Encoded!OffsetWindowSize(b) = WindowAt(l, f)
         /\ Encoded!OffsetRateAve(b) = WindowAt(l, f) + 4
         /\ Encoded!OffsetLossFraction(b) = WindowAt(l, f) + 6
         /\ (Encoded!FlagIsSet(b, Encoded!FLAG_FLOW_ID) <=> f = 1)
         /\ ~Encoded!FlagIsSet(b, Encoded!FLAG_LATENCY_SIGN)
         /\ b[0] % 16 = p /\ Encoded!InitFromBuffer(b) /\ b[1] <= Encoded!MAX_LENGTH
<1>1. /\ b[0] = 16 * (IF l = 4 THEN 1 ELSE 2) + p /\ b[1] = 16 + 2 * l + 4 * f /\ b[2] = 32 * f
      /\ l \in {4, 16} /\ f \in {0, 1} /\ p \in Nat /\ p < 16
  BY DEF Headed
<1>2. b[0] % 16 = p /\ b[0] \div 16 = (IF l = 4 THEN 1 ELSE 2)
  BY <1>1
<1>3. Encoded!GetAddrLen(b) = l
  <2>1. CASE l = 4
    BY <1>2, <2>1 DEF Encoded!GetAddrLen, Encoded!GetReportType
  <2>2. CASE l = 16
    BY <1>2, <2>2 DEF Encoded!GetAddrLen, Encoded!GetReportType
  <2> QED
    BY <1>1, <2>1, <2>2
<1>4. /\ Encoded!FlagIsSet(b, Encoded!FLAG_FLOW_ID) <=> f = 1
      /\ ~Encoded!FlagIsSet(b, Encoded!FLAG_LATENCY_SIGN)
  <2>1. (b[2] = 0 /\ f = 0) \/ (b[2] = 32 /\ f = 1)
    BY <1>1
  <2>2. /\ 0 \div (32 * 1) = 0 /\ 32 \div (32 * 1) = 1
        /\ 0 \div (32 * 2) = 0 /\ 32 \div (32 * 2) = 0
        /\ 0 % 2 = 0 /\ 1 % 2 = 1
    OBVIOUS
  <2> QED
    BY <2>1, <2>2 DEF Encoded!FlagIsSet, Encoded!FLAG_FLOW_ID, Encoded!FLAG_LATENCY_SIGN
<1>5. Encoded!OffsetSrc(b) = 4 + l /\ Encoded!OffsetDstPort(b) = 4 + 2 * l
  BY <1>1, <1>3 DEF Encoded!OffsetSrc, Encoded!OffsetDstPort, Encoded!OFFSET_DST
<1>6. Encoded!OffsetFlowId(b) = 8 + 2 * l
  BY <1>1, <1>5 DEF Encoded!OffsetFlowId
<1>7. Encoded!OffsetWindowSize(b) = WindowAt(l, f)
  BY <1>1, <1>4, <1>6 DEF Encoded!OffsetWindowSize, WindowAt
<1>8. /\ Encoded!OffsetRateAve(b) = WindowAt(l, f) + 4
      /\ Encoded!OffsetLossFraction(b) = WindowAt(l, f) + 6
  BY <1>1, <1>7 DEF Encoded!OffsetRateAve, Encoded!OffsetLossFraction, WindowAt
<1>9. Encoded!InitFromBuffer(b)
  BY <1>1, <1>3, <1>8 DEF Encoded!InitFromBuffer, WindowAt
<1>10. b[1] <= Encoded!MAX_LENGTH
  BY <1>1 DEF Encoded!MAX_LENGTH
<1> QED
  BY <1>2, <1>3, <1>4, <1>5, <1>6, <1>7, <1>8, <1>9, <1>10

\* What is written after the first bytes leaves them alone.
LEMMA HeadStays ==
  ASSUME NEW b, NEW l, NEW f, NEW p, Headed(b, l, f, p), NEW c \in Buffers,
         NEW lo \in Nat, NEW hi, lo >= 4, Alike(b, c, lo, hi)
  PROVE  Headed(c, l, f, p)
<1>1. 0 \in Places /\ 1 \in Places /\ 2 \in Places /\ 3 \in Places
  BY PlacesIs
<1>2. c[0] = b[0] /\ c[1] = b[1] /\ c[2] = b[2] /\ c[3] = b[3]
  BY <1>1 DEF Alike
<1> QED
  BY <1>2 DEF Headed

\* The part of that which the type of the report tells.
LEMMA TypeTells ==
  ASSUME NEW b, NEW l \in {4, 16}, NEW p \in Nat, p < 16,
         b[0] = 16 * (IF l = 4 THEN 1 ELSE 2) + p
  PROVE  /\ Encoded!GetAddrLen(b) = l /\ Encoded!OffsetSrc(b) = 4 + l
         /\ Encoded!OffsetDstPort(b) = 4 + 2 * l /\ Encoded!OffsetFlowId(b) = 8 + 2 * l
<1>1. b[0] \div 16 = (IF l = 4 THEN 1 ELSE 2)
  OBVIOUS
<1>2. Encoded!GetAddrLen(b) = l
  <2>1. CASE l = 4
    BY <1>1, <2>1 DEF Encoded!GetAddrLen, Encoded!GetReportType
  <2>2. CASE l = 16
    BY <1>1, <2>2 DEF Encoded!GetAddrLen, Encoded!GetReportType
  <2> QED
    BY <2>1, <2>2
<1>3. Encoded!OffsetSrc(b) = 4 + l /\ Encoded!OffsetDstPort(b) = 4 + 2 * l
  BY <1>2 DEF Encoded!OffsetSrc, Encoded!OffsetDstPort, Encoded!OFFSET_DST
<1> QED
  BY <1>2, <1>3 DEF Encoded!OffsetFlowId

\* A report with nothing but a type, of which the addresses are not set.
Blank(b, p) ==
  /\ b \in Buffers /\ p \in Nat /\ p < 16
  /\ b[2] = 0 /\ b[3] < 256 /\ \E t \in {1, 2} : b[0] = 16 * t + p

LEMMA TypeSet ==
  ASSUME NEW b, NEW p, Blank(b, p), NEW a, a.len \in {4, 16}
  PROVE  LET c == Encoded!SetReportLength(Encoded!SetReportType(b, Encoded!TypeOf(a)),
                                          16 + 2 * a.len)
         IN Headed(c, a.len, 0, p) /\ Alike(b, c, 0, 2)
<1>1. PICK l : l = a.len /\ l \in {4, 16}
  OBVIOUS
<1>2. PICK t \in Nat : t = Encoded!TypeOf(a) /\ t = IF l = 4 THEN 1 ELSE 2
  BY <1>1 DEF Encoded!TypeOf
<1>3. /\ b \in Buffers /\ p \in Nat /\ p < 16 /\ b[2] = 0 /\ b[3] < 256 /\ b[0] % 16 = p
  BY DEF Blank
<1> DEFINE d == [b EXCEPT ![0] = 16 * t + p]
           e == [d EXCEPT ![1] = 16 + 2 * l]
           c == Encoded!SetReportLength(Encoded!SetReportType(b, Encoded!TypeOf(a)), 16 + 2 * a.len)
<1>4. 0 \in Places /\ 1 \in Places /\ 2 \in Places /\ 3 \in Places /\ \A i \in Places : i \in Nat
  BY PlacesIs
<1>5. Encoded!SetReportType(b, t) = d
  <2>1. b[0] % 16 = p /\ DOMAIN b = Places
    BY <1>3 DEF Buffers
  <2> QED
    BY <1>4, <2>1 DEF Encoded!SetReportType
<1>6. c = e
  BY <1>1, <1>2, <1>5 DEF Encoded!SetReportLength
<1>7. 16 * t + p \in Nat /\ 16 + 2 * l \in Nat
  BY <1>1, <1>3
<1>8. d \in Buffers /\ d[0] = 16 * t + p /\ Alike(b, d, 0, 0 + 1)
  BY <1>3, <1>4, <1>7, PutByte
<1> HIDE DEF d, c
<1>9. e \in Buffers /\ e[1] = 16 + 2 * l /\ Alike(d, e, 1, 1 + 1)
  BY <1>4, <1>7, <1>8, PutByte
<1> HIDE DEF e
<1>10. e[0] = 16 * t + p /\ e[2] = 0 /\ e[3] = b[3]
  BY <1>3, <1>4, <1>8, <1>9 DEF Alike
<1>11. Headed(e, l, 0, p)
  BY <1>1, <1>2, <1>3, <1>9, <1>10 DEF Headed
<1>12. Alike(b, e, 0, 2)
  BY <1>4, <1>8, <1>9 DEF Alike
<1> QED
  BY <1>1, <1>6, <1>11, <1>12 DEF c

LEMMA AddressPut ==
  ASSUME NEW b \in Buffers, NEW at \in Nat, NEW a, a.len \in {4, 16}, a.byte \in Nat,
         at + a.len <= 52
  PROVE  LET c == Encoded!PutAddress(b, at, a)
         IN /\ c \in Buffers /\ Alike(b, c, at, at + a.len)
            /\ \A i \in 0..a.len - 1 : c[at + i] = a.byte
<1> DEFINE c == Encoded!PutAddress(b, at, a)
<1>1. PICK l \in Nat : l = a.len
  OBVIOUS
<1>2. DOMAIN b = Places /\ \A i \in Places : i \in Nat /\ b[i] \in Nat
  BY PlacesIs DEF Buffers
<1>3. c = [i \in Places |-> IF i \in at..at + l - 1 THEN a.byte ELSE b[i]]
  BY <1>1, <1>2 DEF Encoded!PutAddress
<1> HIDE DEF c
<1>4. c \in Buffers
  BY <1>2, <1>3 DEF Buffers
<1>5. Alike(b, c, at, at + l)
  BY <1>1, <1>2, <1>3 DEF Alike
<1>6. ASSUME NEW i \in 0..l - 1 PROVE c[at + i] = a.byte
  <2>1. at + i \in Places /\ at + i \in at..at + l - 1
    BY <1>1, PlacesIs
  <2> QED
    BY <1>3, <2>1
<1> QED
  BY <1>1, <1>4, <1>5, <1>6 DEF c

Good(a) == a.len \in {4, 16} /\ a.byte \in Nat /\ a.port \in Nat /\ a.port < 65536

\* What is read of the addresses and the flow number.
DstHeld(b, l, a) ==
  (\A i \in 0..l - 1 : b[4 + i] = a.byte) /\ Encoded!GetUINT16(b, 4 + 2 * l) = a.port
SrcHeld(b, l, a) ==
  (\A i \in 0..l - 1 : b[4 + l + i] = a.byte) /\ Encoded!GetUINT16(b, 6 + 2 * l) = a.port

LEMMA DstSet ==
  ASSUME NEW b, NEW p, Blank(b, p), NEW a, Good(a)
  PROVE  LET c == Encoded!SetDstAddr(b, a)
         IN Headed(c, a.len, 0, p) /\ DstHeld(c, a.len, a)
<1> DEFINE h == Encoded!SetReportLength(Encoded!SetReportType(b, Encoded!TypeOf(a)), 16 + 2 * a.len)
           d == Encoded!PutAddress(h, 4, a)
           e == Encoded!SetUINT16(d, 4 + 2 * a.len, a.port)
<1>1. a.len \in {4, 16} /\ a.byte \in Nat /\ a.port \in Nat /\ a.port % 65536 = a.port
  <2>1. PICK v \in Nat, m \in Nat : v = a.port /\ m = 65536 /\ v < m
    BY SMT DEF Good
  <2>2. v % m = v
    BY <2>1, RestIs
  <2> QED
    BY <2>1, <2>2, SMT DEF Good
<1>2. PICK l \in Nat : l = a.len /\ l \in {4, 16}
  BY <1>1, SMT
<1>3. Headed(h, l, 0, p) /\ h \in Buffers
  <2>1. Headed(h, a.len, 0, p)
    BY <1>2, TypeSet
  <2> QED
    BY <1>2, <2>1 DEF Headed
<1> HIDE DEF h
<1>4. /\ d \in Buffers /\ Alike(h, d, 4, 4 + l) /\ \A i \in 0..l - 1 : d[4 + i] = a.byte
  <2>1. PICK at \in Nat : at = 4
    OBVIOUS
  <2>2. a.len \in {4, 16} /\ a.byte \in Nat /\ at + a.len <= 52
    BY <1>2, <2>1, SMT DEF Good
  <2>3. LET c == Encoded!PutAddress(h, at, a)
        IN /\ c \in Buffers /\ Alike(h, c, at, at + a.len)
           /\ \A i \in 0..a.len - 1 : c[at + i] = a.byte
    BY <1>3, <2>2, AddressPut
  <2> QED
    BY <1>2, <2>1, <2>3
<1> HIDE DEF d
<1>5. Headed(d, l, 0, p)
  <2>1. PICK at \in Nat : at = 4 /\ at >= 4
    OBVIOUS
  <2>2. Alike(h, d, at, 4 + l)
    BY <1>4, <2>1
  <2> QED
    BY <1>3, <1>4, <2>1, <2>2, HeadStays
<1>6. Encoded!SetDstAddr(b, a) = e
  <2>1. Encoded!OffsetDstPort(d) = 4 + 2 * l
    BY <1>5, HeadIs
  <2> QED
    BY <1>2, <2>1 DEF Encoded!SetDstAddr, d, h, Encoded!OFFSET_DST
<1>7. PICK k \in Nat : k = 4 + 2 * l /\ k \in Places /\ k + 1 \in Places /\ k >= 4
  BY <1>2, PlacesIs
<1>8. Written(d, e, k, a.port)
  BY <1>1, <1>2, <1>4, <1>7, Put16
<1> HIDE DEF e
<1>9. e \in Buffers /\ Alike(d, e, k, k + 2) /\ Encoded!GetUINT16(e, k) = a.port
  BY <1>1, <1>8, SMT DEF Written
<1>10. Headed(e, l, 0, p)
  BY <1>5, <1>7, <1>9, HeadStays
<1>11. ASSUME NEW i \in 0..l - 1 PROVE e[4 + i] = a.byte
  <2>1. 4 + i \in Places /\ 4 + i < k
    BY <1>2, <1>7, PlacesIs
  <2> QED
    BY <1>4, <1>9, <2>1 DEF Alike
<1> QED
  BY <1>2, <1>6, <1>7, <1>9, <1>10, <1>11 DEF DstHeld

LEMMA SrcSet ==
  ASSUME NEW b, NEW p, NEW a, Good(a), NEW dst, Headed(b, a.len, 0, p), DstHeld(b, a.len, dst)
  PROVE  LET c == Encoded!SetSrcAddr(b, a)
         IN Headed(c, a.len, 0, p) /\ DstHeld(c, a.len, dst) /\ SrcHeld(c, a.len, a)
<1> DEFINE h == Encoded!SetReportLength(Encoded!SetReportType(b, Encoded!TypeOf(a)), 16 + 2 * a.len)
           d == Encoded!PutAddress(h, 4 + a.len, a)
           e == Encoded!SetUINT16(d, 4 + 2 * a.len + 2, a.port)
<1>1. a.len \in {4, 16} /\ a.byte \in Nat /\ a.port \in Nat /\ a.port % 65536 = a.port
  <2>1. PICK v \in Nat, m \in Nat : v = a.port /\ m = 65536 /\ v < m
    BY SMT DEF Good
  <2>2. v % m = v
    BY <2>1, RestIs
  <2> QED
    BY <2>1, <2>2, SMT DEF Good
<1>2. PICK l \in Nat : l = a.len /\ l \in {4, 16}
  BY <1>1, SMT
<1>3. Blank(b, p)
  <2>1. /\ b \in Buffers /\ p \in Nat /\ p < 16 /\ b[2] = 0 /\ b[3] < 256
        /\ b[0] = 16 * (IF l = 4 THEN 1 ELSE 2) + p
    BY <1>2 DEF Headed
  <2>2. \E t \in {1, 2} : b[0] = 16 * t + p
    BY <2>1
  <2> QED
    BY <2>1, <2>2 DEF Blank
<1>4. Headed(h, l, 0, p) /\ h \in Buffers /\ Alike(b, h, 0, 2)
  <2>1. Headed(h, a.len, 0, p) /\ Alike(b, h, 0, 2)
    BY <1>2, <1>3, TypeSet
  <2> QED
    BY <1>2, <2>1 DEF Headed
<1> HIDE DEF h
<1>5. PICK at \in Nat : at = 4 + l
  BY <1>2
<1>6. /\ d \in Buffers /\ Alike(h, d, at, at + l) /\ \A i \in 0..l - 1 : d[at + i] = a.byte
  <2>1. a.len \in {4, 16} /\ a.byte \in Nat /\ at + a.len <= 52
    BY <1>1, <1>2, <1>5, SMT
  <2>2. LET c == Encoded!PutAddress(h, at, a)
        IN /\ c \in Buffers /\ Alike(h, c, at, at + a.len)
           /\ \A i \in 0..a.len - 1 : c[at + i] = a.byte
    BY <1>4, <2>1, AddressPut
  <2> QED
    BY <1>2, <1>5, <2>2
<1> HIDE DEF d
<1>7. Headed(d, l, 0, p)
  BY <1>4, <1>5, <1>6, HeadStays
<1>8. Encoded!SetSrcAddr(b, a) = e
  <2>1. Encoded!OffsetDstPort(d) = 4 + 2 * l /\ Encoded!OffsetSrc(h) = 4 + l
    BY <1>4, <1>7, HeadIs
  <2> QED
    BY <1>2, <2>1 DEF Encoded!SetSrcAddr, d, h
<1>9. PICK k \in Nat : k = 4 + 2 * l + 2 /\ k \in Places /\ k + 1 \in Places /\ k >= 4
  BY <1>2, PlacesIs
<1>10. Written(d, e, k, a.port)
  BY <1>1, <1>2, <1>6, <1>9, Put16
<1> HIDE DEF e
<1>11. e \in Buffers /\ Alike(d, e, k, k + 2) /\ Encoded!GetUINT16(e, k) = a.port
  BY <1>1, <1>10, SMT DEF Written
<1>12. Headed(e, l, 0, p)
  BY <1>7, <1>9, <1>11, HeadStays
<1>13. ASSUME NEW j \in Nat, 4 <= j, j < at PROVE e[j] = b[j]
  <2>1. j \in Places /\ j < k
    BY <1>2, <1>5, <1>9, <1>13, PlacesIs
  <2> QED
    BY <1>4, <1>6, <1>11, <1>13, <2>1 DEF Alike
<1>14. ASSUME NEW i \in 0..l - 1 PROVE e[at + i] = a.byte
  <2>1. at + i \in Places /\ at + i < k
    BY <1>2, <1>5, <1>9, PlacesIs
  <2> QED
    BY <1>6, <1>11, <2>1 DEF Alike
<1>15. ASSUME NEW j \in Nat, 4 + 2 * l <= j, j < k PROVE e[j] = b[j]
  <2>1. j \in Places /\ at + l <= j /\ 2 <= j
    BY <1>2, <1>5, <1>9, <1>15, PlacesIs
  <2> QED
    BY <1>4, <1>6, <1>11, <1>15, <2>1 DEF Alike
<1>16. DstHeld(e, l, dst)
  <2>1. (\A i \in 0..l - 1 : b[4 + i] = dst.byte) /\ Encoded!GetUINT16(b, 4 + 2 * l) = dst.port
    BY <1>2 DEF DstHeld
  <2>2. ASSUME NEW i \in 0..l - 1 PROVE e[4 + i] = dst.byte
    <3>1. 4 + i \in Nat /\ 4 <= 4 + i /\ 4 + i < at
      BY <1>2, <1>5
    <3> QED
      BY <1>13, <2>1, <3>1
  <2>3. e[4 + 2 * l] = b[4 + 2 * l] /\ e[4 + 2 * l + 1] = b[4 + 2 * l + 1]
    <3>1. PICK n \in Nat : n = 4 + 2 * l /\ n + 1 < k
      BY <1>2, <1>9
    <3>2. e[n] = b[n] /\ e[n + 1] = b[n + 1]
      BY <1>9, <1>15, <3>1
    <3> QED
      BY <3>1, <3>2
  <2> QED
    BY <2>1, <2>2, <2>3 DEF DstHeld, Encoded!GetUINT16
<1>17. SrcHeld(e, l, a)
  <2>1. k = 6 + 2 * l
    BY <1>2, <1>9
  <2> QED
    BY <1>5, <1>11, <1>14, <2>1 DEF SrcHeld
<1> QED
  BY <1>2, <1>8, <1>12, <1>16, <1>17

\* What is read of a flow.
FlowHeld(b, l, f, flow) ==
  /\ DstHeld(b, l, flow.dst) /\ SrcHeld(b, l, flow.src)
  /\ f = (IF flow.id = 1 THEN 0 ELSE 1)
  /\ f = 1 => Encoded!GetUINT32(b, 8 + 2 * l) = flow.id

\* What is written behind the flow, or before it, leaves it alone.
LEMMA FlowStays ==
  ASSUME NEW b, NEW c, NEW l \in {4, 16}, NEW f \in {0, 1}, NEW flow, FlowHeld(b, l, f, flow),
         \A j \in Places : 4 <= j /\ j < WindowAt(l, f) => c[j] = b[j]
  PROVE  FlowHeld(c, l, f, flow)
<1>1. PICK w \in Nat : w = WindowAt(l, f) /\ w = 8 + 2 * l + 4 * f /\ w <= 52
  BY DEF WindowAt
<1>2. \A j \in Nat : 4 <= j /\ j < w => c[j] = b[j]
  BY <1>1, PlacesIs
<1>3. \A j \in Nat : 4 <= j /\ j < 8 + 2 * l => c[j] = b[j]
  BY <1>1, <1>2
<1>4. ASSUME NEW a, DstHeld(b, l, a) PROVE DstHeld(c, l, a)
  <2>1. ASSUME NEW i \in 0..l - 1 PROVE c[4 + i] = b[4 + i]
    BY <1>3
  <2>2. c[4 + 2 * l] = b[4 + 2 * l] /\ c[4 + 2 * l + 1] = b[4 + 2 * l + 1]
    BY <1>3
  <2> QED
    BY <1>4, <2>1, <2>2 DEF DstHeld, Encoded!GetUINT16
<1>5. ASSUME NEW a, SrcHeld(b, l, a) PROVE SrcHeld(c, l, a)
  <2>1. ASSUME NEW i \in 0..l - 1 PROVE c[4 + l + i] = b[4 + l + i]
    BY <1>3
  <2>2. c[6 + 2 * l] = b[6 + 2 * l] /\ c[6 + 2 * l + 1] = b[6 + 2 * l + 1]
    BY <1>3
  <2> QED
    BY <1>5, <2>1, <2>2 DEF SrcHeld, Encoded!GetUINT16
<1>6. ASSUME f = 1 PROVE Encoded!GetUINT32(c, 8 + 2 * l) = Encoded!GetUINT32(b, 8 + 2 * l)
  <2>1. PICK k \in Nat : k = 8 + 2 * l
    OBVIOUS
  <2>2. c[k] = b[k] /\ c[k + 1] = b[k + 1] /\ c[k + 2] = b[k + 2] /\ c[k + 2 + 1] = b[k + 2 + 1]
    BY <1>1, <1>2, <1>6, <2>1
  <2>3. Encoded!GetUINT16(c, k) = Encoded!GetUINT16(b, k)
        /\ Encoded!GetUINT16(c, k + 2) = Encoded!GetUINT16(b, k + 2)
    BY <2>2 DEF Encoded!GetUINT16
  <2>4. Encoded!GetUINT32(c, k) = Encoded!GetUINT32(b, k)
    BY <2>3, SMT DEF Encoded!GetUINT32
  <2> QED
    BY <2>1, <2>4
<1> QED
  BY <1>4, <1>5, <1>6 DEF FlowHeld

LEMMA FlowIdSet ==
  ASSUME NEW b, NEW l, NEW p, Headed(b, l, 0, p),
         NEW dst, DstHeld(b, l, dst), NEW src, SrcHeld(b, l, src),
         NEW id, Word(id)
  PROVE  LET c == Encoded!SetFlowId(b, id)
         IN /\ Headed(c, l, 1, p) /\ DstHeld(c, l, dst) /\ SrcHeld(c, l, src)
            /\ Encoded!GetUINT32(c, 8 + 2 * l) = id
<1>1. /\ b \in Buffers /\ l \in {4, 16} /\ p \in Nat /\ p < 16 /\ b[2] = 0 /\ b[3] < 256
      /\ b[0] = 16 * (IF l = 4 THEN 1 ELSE 2) + p
  BY DEF Headed
<1> DEFINE x == [b EXCEPT ![2] = 32]
           y == Encoded!SetUINT32(x, 8 + 2 * l, id)
           z == [y EXCEPT ![1] = 20 + 2 * l]
<1>2. 0 \in Places /\ 1 \in Places /\ 2 \in Places /\ 3 \in Places /\ \A i \in Places : i \in Nat
  BY PlacesIs
<1>3. Encoded!SetFlag(b, Encoded!FLAG_FLOW_ID) = x
  <2>1. ~Encoded!FlagIsSet(b, Encoded!FLAG_FLOW_ID)
    BY HeadIs
  <2>2. b[2] + 32 * 1 = 32
    BY <1>1
  <2> QED
    BY <1>1, <1>2, <2>1, <2>2 DEF Encoded!SetFlag, Encoded!FLAG_FLOW_ID, Buffers
<1>4. x \in Buffers /\ x[2] = 32 /\ Alike(b, x, 2, 2 + 1)
  BY <1>1, <1>2, PutByte
<1>5. x[0] = b[0]
  BY <1>2, <1>4 DEF Alike
<1> HIDE DEF x
<1>6. y \in Buffers /\ Encoded!GetUINT32(y, 8 + 2 * l) = id /\ Alike(x, y, 8 + 2 * l, 8 + 2 * l + 4)
  <2>1. PICK k \in Nat : k = 8 + 2 * l /\ k + 4 <= 52
    BY <1>1
  <2>2. WordWritten(x, Encoded!SetUINT32(x, k, id), k, id)
    BY <1>4, <2>1, Put32
  <2> QED
    BY <2>1, <2>2 DEF WordWritten
<1>7. Encoded!SetFlowId(b, id) = z
  <2>1. Encoded!OffsetFlowId(x) = 8 + 2 * l
    <3>1. x[0] = 16 * (IF l = 4 THEN 1 ELSE 2) + p
      BY <1>1, <1>5
    <3> QED
      BY <1>1, <3>1, TypeTells
  <2>2. Encoded!OffsetSrc(b) + Encoded!GetAddrLen(b) + 16 = 20 + 2 * l
    BY <1>1, TypeTells
  <2> HIDE DEF z
  <2>3. Encoded!SetFlowId(b, id)
          = [y EXCEPT ![1] = Encoded!OffsetSrc(b) + Encoded!GetAddrLen(b) + 16]
    BY <1>3, <2>1 DEF Encoded!SetFlowId, Encoded!SetReportLength
  <2> QED
    BY <2>2, <2>3 DEF z
<1> HIDE DEF y
<1>8. z \in Buffers /\ z[1] = 20 + 2 * l /\ Alike(y, z, 1, 1 + 1)
  <2>1. 20 + 2 * l \in Nat
    BY <1>1
  <2> QED
    BY <1>2, <1>6, <2>1, PutByte
<1> HIDE DEF z
<1>9. /\ z[0] = b[0] /\ z[2] = 32 /\ z[3] = b[3]
      /\ \A j \in Places : 4 <= j /\ j < 8 + 2 * l => z[j] = b[j]
      /\ \A j \in Places : 4 <= j => z[j] = y[j]
  <2>1. \A j \in Places : j # 1 => z[j] = y[j]
    BY <1>2, <1>8 DEF Alike
  <2>2. \A j \in Places : j < 8 + 2 * l => y[j] = x[j]
    BY <1>6 DEF Alike
  <2>3. \A j \in Places : j # 2 => x[j] = b[j]
    BY <1>2, <1>4 DEF Alike
  <2> QED
    BY <1>1, <1>2, <1>4, <2>1, <2>2, <2>3
<1>10. Headed(z, l, 1, p)
  BY <1>1, <1>8, <1>9 DEF Headed
<1>11. DstHeld(z, l, dst) /\ SrcHeld(z, l, src)
  <2>1. PICK flow : flow = [dst |-> dst, src |-> src, id |-> 1]
    BY Zenon
  <2>2. flow.dst = dst /\ flow.src = src /\ flow.id = 1
    BY <2>1
  <2>3. FlowHeld(b, l, 0, flow)
    BY <2>2 DEF FlowHeld
  <2>4. \A j \in Places : 4 <= j /\ j < WindowAt(l, 0) => z[j] = b[j]
    <3>1. WindowAt(l, 0) = 8 + 2 * l
      BY <1>1 DEF WindowAt
    <3> QED
      BY <1>9, <3>1
  <2>5. FlowHeld(z, l, 0, flow)
    <3>1. PICK f \in {0, 1} : f = 0
      OBVIOUS
    <3> QED
      BY <1>1, <2>3, <2>4, <3>1, FlowStays
  <2> QED
    BY <2>2, <2>5 DEF FlowHeld
<1>12. Encoded!GetUINT32(z, 8 + 2 * l) = id
  <2>1. PICK k \in Nat : k = 8 + 2 * l /\ k + 4 <= 52
    BY <1>1
  <2>2. k \in Places /\ k + 1 \in Places /\ k + 2 \in Places /\ k + 2 + 1 \in Places /\ 4 <= k
    BY <1>1, <2>1, PlacesIs
  <2>3. z[k] = y[k] /\ z[k + 1] = y[k + 1] /\ z[k + 2] = y[k + 2] /\ z[k + 2 + 1] = y[k + 2 + 1]
    BY <1>9, <2>1, <2>2
  <2>4. Encoded!GetUINT16(z, k) = Encoded!GetUINT16(y, k)
        /\ Encoded!GetUINT16(z, k + 2) = Encoded!GetUINT16(y, k + 2)
    BY <2>3 DEF Encoded!GetUINT16
  <2>5. Encoded!GetUINT32(z, k) = Encoded!GetUINT32(y, k)
    BY <2>4, SMT DEF Encoded!GetUINT32
  <2> QED
    BY <1>6, <2>1, <2>5
<1> QED
  BY <1>7, <1>10, <1>11, <1>12

\* A byte of the window.
ByteWritten(b, c, l, f, p, at, v) ==
  Headed(c, l, f, p) /\ c[at] = v /\ Alike(b, c, at, at + 1)

LEMMA ByteSet ==
  ASSUME NEW b, NEW l, NEW f, NEW p, Headed(b, l, f, p),
         NEW i \in Nat, i < 8, NEW v \in Nat, v < 256
  PROVE  ByteWritten(b, Encoded!SetUINT8(b, WindowAt(l, f) + i, v), l, f, p, WindowAt(l, f) + i, v)
<1>1. PICK k \in Nat : k = WindowAt(l, f) + i /\ k >= 4 /\ k \in Places
  <2>1. l \in {4, 16} /\ f \in {0, 1}
    BY DEF Headed
  <2> QED
    BY <2>1, PlacesIs DEF WindowAt
<1> DEFINE c == Encoded!SetUINT8(b, k, v)
<1>2. b \in Buffers
  BY DEF Headed
<1>3. c \in Buffers /\ c[k] = v /\ Alike(b, c, k, k + 1)
  BY <1>1, <1>2, Put8
<1> HIDE DEF c
<1>4. Headed(c, l, f, p)
  BY <1>1, <1>3, HeadStays
<1> QED
  BY <1>1, <1>3, <1>4 DEF c, ByteWritten

\* The quantized time.
Q(t) == Encoded!QuantizeTimeValue(t)

\* The buffer as a flow's analytic starts with it.
LEMMA LaidIs ==
  ASSUME NEW protocol \in Nat, protocol < 16, NEW src, Good(src), NEW dst, Good(dst),
         src.len = dst.len, NEW id, Word(id), NEW size \in Int
  PROVE  LET b == Encoded!Laid(protocol, src, dst, id, size)
             f == IF id = 1 THEN 0 ELSE 1
         IN /\ Headed(b, dst.len, f, protocol) /\ b[WindowAt(dst.len, f)] = Q(size)
            /\ FlowHeld(b, dst.len, f, [protocol |-> protocol, src |-> src, dst |-> dst, id |-> id])
<1>1. PICK l : l = dst.len /\ l = src.len /\ l \in {4, 16}
  BY SMT DEF Good
<1> DEFINE raw == [i \in 0..Encoded!MAX_LENGTH - 1 |-> 255]
           a == Encoded!SetProtocol(Encoded!InitIntoBuffer(raw), protocol)
           d == Encoded!SetDstAddr(a, dst)
           e == Encoded!SetSrcAddr(d, src)
           g == IF id # 1 THEN Encoded!SetFlowId(e, id) ELSE e
           f == IF id = 1 THEN 0 ELSE 1
           b == Encoded!SetWindowSize(g, size)
           flow == [protocol |-> protocol, src |-> src, dst |-> dst, id |-> id]
<1>2. Encoded!Laid(protocol, src, dst, id, size) = b
  BY DEF Encoded!Laid
<1>3. Blank(a, protocol)
  <2> DEFINE z == [i \in Places |-> IF i < 16 THEN 0 ELSE raw[i]]
             x == [z EXCEPT ![0] = 16]
             y == [x EXCEPT ![1] = 16]
             w == [y EXCEPT ![0] = 16 + protocol]
  <2>1. DOMAIN raw = Places
    BY DEF Places
  <2>2. 0 \in Places /\ 1 \in Places /\ 2 \in Places /\ 3 \in Places /\ \A i \in Places : i \in Nat
    BY PlacesIs
  <2>3. \A i \in Places : raw[i] = 255
    <3>1. PICK n : n = Encoded!MAX_LENGTH - 1
      OBVIOUS
    <3>2. raw = [i \in 0..n |-> 255] /\ Places = 0..n
      BY <3>1 DEF Places
    <3> HIDE DEF raw
    <3> QED
      BY <3>2
  <2> HIDE DEF raw
  <2>4. z \in Buffers /\ z[0] = 0 /\ z[2] = 0 /\ z[3] = 0
    BY <2>2, <2>3 DEF Buffers
  <2>5. Encoded!InitIntoBuffer(raw) = y
    <3>1. [i \in DOMAIN raw |-> IF i < 16 THEN 0 ELSE raw[i]] = z
      BY <2>1
    <3> HIDE DEF z
    <3>2. Encoded!SetReportType(z, 1) = x
      <4>1. 16 * 1 + (z[0] % 16) = 16
        BY <2>4
      <4> QED
        BY <2>2, <2>4, <4>1 DEF Encoded!SetReportType, Buffers
    <3> HIDE DEF x
    <3> QED
      BY <3>1, <3>2 DEF Encoded!InitIntoBuffer, Encoded!SetReportLength
  <2> HIDE DEF z
  <2>6. x \in Buffers /\ x[0] = 16 /\ Alike(z, x, 0, 0 + 1)
    BY <2>2, <2>4, PutByte
  <2> HIDE DEF x
  <2>7. y \in Buffers /\ Alike(x, y, 1, 1 + 1)
    BY <2>2, <2>6, PutByte
  <2> HIDE DEF y
  <2>8. y[0] = 16 /\ y[2] = 0 /\ y[3] = 0
    BY <2>2, <2>4, <2>6, <2>7 DEF Alike
  <2>9. a = w
    <3>1. PICK n : n = 16 * (y[0] \div 16) + protocol
      OBVIOUS
    <3>2. n = 16 + protocol
      BY <2>8, <3>1
    <3>3. Encoded!SetProtocol(y, protocol) = [y EXCEPT ![0] = n]
      BY <2>2, <2>7, <3>1 DEF Encoded!SetProtocol, Buffers
    <3> QED
      BY <2>5, <3>2, <3>3
  <2> HIDE DEF a
  <2>10. w \in Buffers /\ w[0] = 16 + protocol /\ Alike(y, w, 0, 0 + 1)
    BY <2>2, <2>7, PutByte
  <2> HIDE DEF w
  <2>11. w[2] = 0 /\ w[3] = 0
    BY <2>2, <2>8, <2>10 DEF Alike
  <2>12. 16 + protocol = 16 * 1 + protocol /\ 1 \in {1, 2}
    OBVIOUS
  <2> QED
    BY <2>9, <2>10, <2>11, <2>12 DEF Blank
<1> HIDE DEF a
<1>4. Headed(d, l, 0, protocol) /\ DstHeld(d, l, dst)
  BY <1>1, <1>3, DstSet
<1> HIDE DEF d
<1>5. Headed(e, l, 0, protocol) /\ DstHeld(e, l, dst) /\ SrcHeld(e, l, src)
  <2>1. Headed(d, src.len, 0, protocol) /\ DstHeld(d, src.len, dst)
    BY <1>1, <1>4
  <2> QED
    BY <1>1, <2>1, SrcSet
<1> HIDE DEF e
<1>6. /\ Headed(g, l, f, protocol) /\ DstHeld(g, l, dst) /\ SrcHeld(g, l, src)
      /\ f = 1 => Encoded!GetUINT32(g, 8 + 2 * l) = id
  <2>1. CASE id = 1
    BY <1>5, <2>1
  <2>2. CASE id # 1
    BY <1>5, <2>2, FlowIdSet
  <2> QED
    BY <2>1, <2>2
<1>7. f \in {0, 1} /\ FlowHeld(g, l, f, flow)
  BY <1>6 DEF FlowHeld
<1> HIDE DEF g, f
<1>8. /\ Headed(b, l, f, protocol) /\ b[WindowAt(l, f)] = Q(size)
      /\ Alike(g, b, WindowAt(l, f), WindowAt(l, f) + 1)
  <2>1. PICK i \in Nat : i = 0 /\ i < 8
    OBVIOUS
  <2>2. WindowAt(l, f) + i = WindowAt(l, f) /\ WindowAt(l, f) \in Nat
    BY <1>1, <1>7, <2>1 DEF WindowAt
  <2>3. Q(size) \in Nat /\ Q(size) < 256
    BY StepsIs DEF Q
  <2>4. b = Encoded!SetUINT8(g, WindowAt(l, f), Q(size))
    BY <1>6, HeadIs DEF Encoded!SetWindowSize, Q
  <2> HIDE DEF b
  <2>5. ByteWritten(g, Encoded!SetUINT8(g, WindowAt(l, f) + i, Q(size)), l, f, protocol,
                    WindowAt(l, f) + i, Q(size))
    BY <1>6, <2>1, <2>3, ByteSet
  <2> QED
    BY <2>2, <2>4, <2>5 DEF ByteWritten
<1> HIDE DEF b, flow
<1>9. FlowHeld(b, l, f, flow)
  <2>1. \A j \in Places : 4 <= j /\ j < WindowAt(l, f) => b[j] = g[j]
    BY <1>8 DEF Alike
  <2> QED
    BY <1>1, <1>7, <2>1, FlowStays
<1> QED
  BY <1>1, <1>2, <1>8, <1>9 DEF f, flow

\* Two bytes of the window.
PairWritten(b, c, l, f, p, at, v) ==
  Headed(c, l, f, p) /\ Encoded!GetUINT16(c, at) = v /\ Alike(b, c, at, at + 2)

LEMMA PairSet ==
  ASSUME NEW b, NEW l, NEW f, NEW p, Headed(b, l, f, p), NEW i \in Nat, i < 7,
         NEW v \in Nat, v < 65536
  PROVE  PairWritten(b, Encoded!SetUINT16(b, WindowAt(l, f) + i, v), l, f, p, WindowAt(l, f) + i, v)
<1>1. PICK k \in Nat : k = WindowAt(l, f) + i /\ k >= 4 /\ k \in Places /\ k + 1 \in Places
  <2>1. l \in {4, 16} /\ f \in {0, 1}
    BY SMT DEF Headed
  <2> QED
    BY <2>1, PlacesIs, SMT DEF WindowAt
<1> DEFINE c == Encoded!SetUINT16(b, k, v)
<1>2. b \in Buffers
  BY SMT DEF Headed
<1>3. Written(b, c, k, v)
  BY <1>1, <1>2, Put16, SMT
<1> HIDE DEF c
<1>4. v % 65536 = v
  BY SMT
<1>5. c \in Buffers /\ Encoded!GetUINT16(c, k) = v /\ Alike(b, c, k, k + 2)
  BY <1>3, <1>4, SMT DEF Written
<1>6. Headed(c, l, f, p)
  BY <1>1, <1>5, HeadStays, SMT
<1> QED
  BY <1>1, <1>5, <1>6, SMT DEF c, PairWritten

\* The offset of the window, beside the flags.
OffsetWritten(b, c, l, f, p, v) ==
  Headed(c, l, f, p) /\ Encoded!GetUINT16(c, 2) % 8192 = v /\ Alike(b, c, 2, 4)

LEMMA OffsetSet ==
  ASSUME NEW b, NEW l, NEW f, NEW p, Headed(b, l, f, p), NEW t \in Int
  PROVE  OffsetWritten(b, Encoded!SetWindowOffset(b, t), l, f, p, Encoded!QuantizeTimeValue(t))
<1> DEFINE v == Encoded!QuantizeTimeValue(t)
           w == (Encoded!GetUINT16(b, 2) \div 8192) * 8192 + v
<1>1. v \in Nat /\ v < 256
  BY StepsIs
<1> HIDE DEF v
<1>2. /\ b \in Buffers /\ l \in {4, 16} /\ f \in {0, 1} /\ p \in Nat /\ p < 16 /\ b[2] = 32 * f
      /\ b[0] = 16 * (IF l = 4 THEN 1 ELSE 2) + p /\ b[1] = 16 + 2 * l + 4 * f /\ b[3] < 256
  BY SMT DEF Headed
<1>3. /\ 0 \in Places /\ 1 \in Places /\ 2 \in Places /\ 2 + 1 \in Places /\ 3 \in Places
      /\ \A j \in Places : j \in Nat
  BY PlacesIs
<1>4. b[3] \in Nat
  BY <1>2, <1>3 DEF Buffers
<1>5. w = 8192 * f + v
  <2>1. PICK x \in Nat : x = b[3] /\ x < 256
    BY <1>2, <1>4, SMT
  <2>2. Encoded!GetUINT16(b, 2) = 8192 * f + x
    BY <1>2, <2>1, SMT DEF Encoded!GetUINT16
  <2>3. (8192 * f + x) \div 8192 = f
    BY <1>2, <2>1, SMT
  <2> QED
    BY <1>2, <2>2, <2>3, SMT
<1> HIDE DEF w
<1>6. w \in Nat
  BY <1>1, <1>2, <1>5, SMT
<1> DEFINE c == Encoded!SetUINT16(b, 2, w)
<1>7. Encoded!SetWindowOffset(b, t) = c
  BY DEF Encoded!SetWindowOffset, w, v
<1>8. Written(b, c, 2, w)
  BY <1>2, <1>3, <1>6, Put16
<1> HIDE DEF c
<1>9. /\ c \in Buffers /\ Alike(b, c, 2, 4) /\ c[2] = (w \div 256) % 256 /\ c[3] = w % 256
      /\ Encoded!GetUINT16(c, 2) = w % 65536
  <2>1. 2 + 2 = 4 /\ 2 + 1 = 3
    OBVIOUS
  <2> QED
    BY <1>8, <2>1 DEF Written
<1>10. (w \div 256) % 256 = 32 * f /\ w % 256 = v /\ w % 65536 = w /\ w % 8192 = v
  <2>1. CASE f = 0
    BY <1>1, <1>5, <2>1, SMT
  <2>2. CASE f = 1
    BY <1>1, <1>5, <2>2, SMT
  <2> QED
    BY <1>2, <2>1, <2>2
<1>11. c[0] = b[0] /\ c[1] = b[1]
  BY <1>3, <1>9 DEF Alike
<1>12. Headed(c, l, f, p)
  BY <1>1, <1>2, <1>9, <1>10, <1>11, SMT DEF Headed
<1> QED
  BY <1>7, <1>9, <1>10, <1>12 DEF OffsetWritten, v

\* What a window may have, one by one.
LEMMA PlausibleIs ==
  ASSUME NEW u, Plausible(u)
  PROVE  /\ u.size \in Int /\ u.offset \in Int /\ u.min \in Int /\ u.max \in Int
         /\ u.ave \in Nat /\ u.min <= u.ave /\ u.ave <= u.max
         /\ u.rate \in Nat /\ u.rate < 1000000 /\ RateOk(u.rate)
         /\ u.of \in Nat /\ u.of > 0 /\ u.lost \in 0..u.of
<1>1. u.size \in Int /\ u.offset \in Int /\ u.min \in Int /\ u.max \in Int
  BY SMT DEF Plausible
<1>2. u.ave \in Nat /\ u.min <= u.ave /\ u.ave <= u.max
  BY <1>1, SMT DEF Plausible
<1>3. u.rate \in Nat /\ u.rate < 1000000 /\ RateOk(u.rate)
  BY SMT DEF Plausible, RateOk
<1>4. u.of \in Nat /\ u.of > 0 /\ u.lost \in 0..u.of
  BY SMT DEF Plausible
<1> QED
  BY <1>1, <1>2, <1>3, <1>4

\* The buffer after the end of a window.
Renewed(b, u) ==
  LET timed == Encoded!SetLatencyAve(Encoded!SetWindowSize(b, u.size), u.ave)
      rated == Encoded!SetRateAve(
                 Encoded!SetLatencyDeltas(timed, u.ave - u.min, u.max - u.ave), u.rate)
  IN  Encoded!SetWindowOffset(Encoded!SetLossFraction(rated, u.lost, u.of), u.offset)

\* The bytes of a window u, from a place w on, and its offset.
WindowHeld(b, w, u) ==
  /\ b[w + 1] = Q(u.ave) /\ b[w + 2] = Q(u.ave - u.min) /\ b[w + 3] = Q(u.max - u.ave)
  /\ Encoded!GetUINT16(b, w + 4) = Encoded!QuantizeRate(u.rate)
  /\ Encoded!GetUINT16(b, w + 6) = Encoded!QuantizeLoss(u.lost, u.of)
  /\ Encoded!GetUINT16(b, 2) % 8192 = Q(u.offset)

LEMMA RenewedIs ==
  ASSUME NEW b, NEW l, NEW f, NEW p, Headed(b, l, f, p), NEW flow, FlowHeld(b, l, f, flow),
         NEW u, Plausible(u)
  PROVE  /\ Headed(Renewed(b, u), l, f, p) /\ FlowHeld(Renewed(b, u), l, f, flow)
         /\ Renewed(b, u)[WindowAt(l, f)] = Q(u.size)
         /\ WindowHeld(Renewed(b, u), WindowAt(l, f), u)
<1>1. PICK w \in Nat :
        /\ w = WindowAt(l, f) /\ w >= 16
        /\ w \in Places /\ w + 1 \in Places /\ w + 2 \in Places /\ w + 3 \in Places
        /\ w + 4 \in Places /\ w + 4 + 1 \in Places /\ w + 6 \in Places /\ w + 6 + 1 \in Places
  <2>1. l \in {4, 16} /\ f \in {0, 1}
    BY DEF Headed
  <2> QED
    BY <2>1, PlacesIs DEF WindowAt
<1> DEFINE rate == Encoded!QuantizeRate(u.rate)
           loss == Encoded!QuantizeLoss(u.lost, u.of)
<1>2. /\ rate \in Nat /\ rate < 65536 /\ loss \in Nat /\ loss < 65536
  BY PlausibleIs, RateIs, LossIs, SMT
<1>3. /\ Encoded!Abs(u.ave) = u.ave /\ ~(u.ave < 0)
      /\ Encoded!Abs(u.ave - u.min) = u.ave - u.min /\ Encoded!Abs(u.max - u.ave) = u.max - u.ave
      /\ u.size \in Int /\ u.ave \in Int /\ u.ave - u.min \in Int /\ u.max - u.ave \in Int
      /\ u.offset \in Int
  BY PlausibleIs, SMT DEF Encoded!Abs
<1>4. \A t \in Int : Q(t) \in Nat /\ Q(t) < 256
  BY StepsIs DEF Q
<1> DEFINE c1 == Encoded!SetUINT8(b, w, Q(u.size))
           c2 == Encoded!SetUINT8(c1, w + 1, Q(u.ave))
           c3 == Encoded!SetUINT8(c2, w + 2, Q(u.ave - u.min))
           c4 == Encoded!SetUINT8(c3, w + 3, Q(u.max - u.ave))
           c5 == Encoded!SetUINT16(c4, w + 4, rate)
           c6 == Encoded!SetUINT16(c5, w + 6, loss)
           c7 == Encoded!SetWindowOffset(c6, u.offset)
<1>5. ASSUME NEW c, Headed(c, l, f, p), NEW t \in Int, NEW i \in Nat, i < 8
      PROVE  ByteWritten(c, Encoded!SetUINT8(c, w + i, Q(t)), l, f, p, w + i, Q(t))
  BY <1>1, <1>4, <1>5, ByteSet
<1>6. ASSUME NEW c, Headed(c, l, f, p), NEW v \in Nat, v < 65536, NEW i \in Nat, i < 7
      PROVE  PairWritten(c, Encoded!SetUINT16(c, w + i, v), l, f, p, w + i, v)
  BY <1>1, <1>6, PairSet, SMT
<1>7. PICK i0 \in Nat, i1 \in Nat, i2 \in Nat, i3 \in Nat, i4 \in Nat, i6 \in Nat :
        i0 = 0 /\ i1 = 1 /\ i2 = 2 /\ i3 = 3 /\ i4 = 4 /\ i6 = 6
  OBVIOUS
<1>8. /\ w + i0 = w /\ w + i1 = w + 1 /\ w + i2 = w + 2 /\ w + i3 = w + 3 /\ w + i4 = w + 4
      /\ w + i6 = w + 6
      /\ i0 < 8 /\ i1 < 8 /\ i2 < 8 /\ i3 < 8 /\ i4 < 7 /\ i6 < 7
  BY <1>7
<1> HIDE DEF rate, loss
<1>9. ByteWritten(b, c1, l, f, p, w, Q(u.size))
  <2>1. ByteWritten(b, Encoded!SetUINT8(b, w + i0, Q(u.size)), l, f, p, w + i0, Q(u.size))
    BY <1>3, <1>5, <1>8, Zenon
  <2> QED
    BY <1>8, <2>1, Zenon
<1> HIDE DEF c1
<1>10. ByteWritten(c1, c2, l, f, p, w + 1, Q(u.ave))
  <2>1. Headed(c1, l, f, p)
    BY <1>9, Zenon DEF ByteWritten
  <2>2. ByteWritten(c1, Encoded!SetUINT8(c1, w + i1, Q(u.ave)), l, f, p, w + i1, Q(u.ave))
    BY <1>3, <1>5, <1>8, <2>1, Zenon
  <2> QED
    BY <1>8, <2>2, Zenon
<1> HIDE DEF c2
<1>11. ByteWritten(c2, c3, l, f, p, w + 2, Q(u.ave - u.min))
  <2>1. Headed(c2, l, f, p)
    BY <1>10, Zenon DEF ByteWritten
  <2>2. ByteWritten(c2, Encoded!SetUINT8(c2, w + i2, Q(u.ave - u.min)), l, f, p, w + i2,
                    Q(u.ave - u.min))
    BY <1>3, <1>5, <1>8, <2>1, Zenon
  <2> QED
    BY <1>8, <2>2, Zenon
<1> HIDE DEF c3
<1>12. ByteWritten(c3, c4, l, f, p, w + 3, Q(u.max - u.ave))
  <2>1. Headed(c3, l, f, p)
    BY <1>11, Zenon DEF ByteWritten
  <2>2. ByteWritten(c3, Encoded!SetUINT8(c3, w + i3, Q(u.max - u.ave)), l, f, p, w + i3,
                    Q(u.max - u.ave))
    BY <1>3, <1>5, <1>8, <2>1, Zenon
  <2> QED
    BY <1>8, <2>2, Zenon
<1> HIDE DEF c4
<1>13. PairWritten(c4, c5, l, f, p, w + 4, rate)
  <2>1. Headed(c4, l, f, p)
    BY <1>12, Zenon DEF ByteWritten
  <2>2. PairWritten(c4, Encoded!SetUINT16(c4, w + i4, rate), l, f, p, w + i4, rate)
    BY <1>2, <1>6, <1>8, <2>1, SMT
  <2> QED
    BY <1>8, <2>2
<1> HIDE DEF c5
<1>14. PairWritten(c5, c6, l, f, p, w + 6, loss)
  <2>1. Headed(c5, l, f, p)
    BY <1>13 DEF PairWritten
  <2>2. PairWritten(c5, Encoded!SetUINT16(c5, w + i6, loss), l, f, p, w + i6, loss)
    BY <1>2, <1>6, <1>8, <2>1, SMT
  <2> QED
    BY <1>8, <2>2
<1> HIDE DEF c6
<1>15. OffsetWritten(c6, c7, l, f, p, Q(u.offset))
  <2>1. Headed(c6, l, f, p)
    BY <1>14 DEF PairWritten
  <2> QED
    BY <1>3, <2>1, OffsetSet DEF Q
<1> HIDE DEF c7
<1>16. Renewed(b, u) = c7
  <2>1. Encoded!SetWindowSize(b, u.size) = c1
    BY <1>1, HeadIs DEF Encoded!SetWindowSize, Q, c1
  <2>2. Encoded!SetLatencyAve(c1, u.ave) = c2
    <3>1. Encoded!OffsetWindowSize(c1) = w
      BY <1>1, <1>9, HeadIs DEF ByteWritten
    <3> QED
      BY <1>3, <3>1 DEF Encoded!SetLatencyAve, Q, c2
  <2>3. Encoded!SetLatencyDeltas(c2, u.ave - u.min, u.max - u.ave) = c4
    <3>1. Encoded!OffsetWindowSize(c2) = w /\ Encoded!OffsetWindowSize(c3) = w
      BY <1>1, <1>10, <1>11, HeadIs DEF ByteWritten
    <3>2. Encoded!SetUINT8(c2, Encoded!OffsetWindowSize(c2) + 2,
                           Encoded!QuantizeTimeValue(Encoded!Abs(u.ave - u.min))) = c3
      BY <1>3, <3>1 DEF Q, c3
    <3>3. Encoded!SetUINT8(c3, Encoded!OffsetWindowSize(c3) + 3,
                           Encoded!QuantizeTimeValue(Encoded!Abs(u.max - u.ave))) = c4
      BY <1>3, <3>1 DEF Q, c4
    <3> QED
      BY <3>2, <3>3 DEF Encoded!SetLatencyDeltas
  <2>4. Encoded!SetRateAve(c4, u.rate) = c5
    <3>1. Encoded!OffsetRateAve(c4) = w + 4
      BY <1>1, <1>12, HeadIs DEF ByteWritten
    <3> QED
      BY <3>1 DEF Encoded!SetRateAve, rate, c5
  <2>5. Encoded!SetLossFraction(c5, u.lost, u.of) = c6
    <3>1. Encoded!OffsetLossFraction(c5) = w + 6
      BY <1>1, <1>13, HeadIs DEF PairWritten
    <3> QED
      BY <3>1 DEF Encoded!SetLossFraction, loss, c6
  <2> QED
    BY <2>1, <2>2, <2>3, <2>4, <2>5 DEF Renewed, c7
<1>17. /\ \A j \in Places : j # w => c1[j] = b[j]
       /\ \A j \in Places : j # w + 1 => c2[j] = c1[j]
       /\ \A j \in Places : j # w + 2 => c3[j] = c2[j]
       /\ \A j \in Places : j # w + 3 => c4[j] = c3[j]
  <2>1. \A j \in Places : j \in Nat
    BY PlacesIs
  <2> QED
    BY <1>9, <1>10, <1>11, <1>12, <2>1 DEF ByteWritten, Alike
<1>18. /\ \A j \in Places : j < w + 4 => c5[j] = c4[j]
       /\ \A j \in Places : j < w + 6 => c6[j] = c5[j]
       /\ \A j \in Places : j >= 4 => c7[j] = c6[j]
  <2>1. \A j \in Places : j \in Nat
    BY PlacesIs
  <2> QED
    BY <1>13, <1>14, <1>15, <2>1 DEF PairWritten, OffsetWritten, Alike
<1>19. /\ c1[w] = Q(u.size) /\ c2[w + 1] = Q(u.ave) /\ c3[w + 2] = Q(u.ave - u.min)
       /\ c4[w + 3] = Q(u.max - u.ave)
  BY <1>9, <1>10, <1>11, <1>12 DEF ByteWritten
<1>20. \A j \in Places : j >= 4 /\ j < w + 4 => c7[j] = c4[j]
  <2>1. \A j \in Places : j \in Nat
    BY PlacesIs
  <2> QED
    BY <1>18, <2>1
<1>21. c7[w] = Q(u.size) /\ c7[w + 1] = Q(u.ave)
  <2>1. c7[w] = c4[w] /\ c7[w + 1] = c4[w + 1]
    BY <1>1, <1>20
  <2>2. c4[w] = c1[w] /\ c4[w + 1] = c2[w + 1]
    BY <1>1, <1>17
  <2> QED
    BY <1>19, <2>1, <2>2
<1>22. c7[w + 2] = Q(u.ave - u.min) /\ c7[w + 3] = Q(u.max - u.ave)
  <2>1. c7[w + 2] = c4[w + 2] /\ c7[w + 3] = c4[w + 3]
    BY <1>1, <1>20
  <2>2. c4[w + 2] = c3[w + 2]
    BY <1>1, <1>17
  <2> QED
    BY <1>19, <2>1, <2>2
<1>23. Encoded!GetUINT16(c7, w + 4) = rate
  <2>1. Encoded!GetUINT16(c5, w + 4) = rate
    BY <1>13 DEF PairWritten
  <2>2. c7[w + 4] = c5[w + 4] /\ c7[w + 4 + 1] = c5[w + 4 + 1]
    BY <1>1, <1>18
  <2> QED
    BY <2>1, <2>2 DEF Encoded!GetUINT16
<1>24. Encoded!GetUINT16(c7, w + 6) = loss
  <2>1. Encoded!GetUINT16(c6, w + 6) = loss
    BY <1>14 DEF PairWritten
  <2>2. c7[w + 6] = c6[w + 6] /\ c7[w + 6 + 1] = c6[w + 6 + 1]
    BY <1>1, <1>18
  <2> QED
    BY <2>1, <2>2 DEF Encoded!GetUINT16
<1>25. Headed(c7, l, f, p) /\ Encoded!GetUINT16(c7, 2) % 8192 = Q(u.offset)
  BY <1>15 DEF OffsetWritten
<1>26. FlowHeld(c7, l, f, flow)
  <2>1. l \in {4, 16} /\ f \in {0, 1}
    BY DEF Headed
  <2>2. ASSUME NEW j \in Places, 4 <= j, j < WindowAt(l, f) PROVE c7[j] = b[j]
    <3>1. j \in Nat /\ j >= 4 /\ j < w + 4 /\ j # w /\ j # w + 1 /\ j # w + 2 /\ j # w + 3
      BY <1>1, <2>2, PlacesIs
    <3> QED
      BY <1>17, <1>20, <2>2, <3>1
  <2> QED
    BY <2>1, <2>2, FlowStays
<1> QED
  BY <1>1, <1>16, <1>21, <1>22, <1>23, <1>24, <1>25, <1>26 DEF WindowHeld, rate, loss

\* The bytes that were written are read as finely as they can be.
LEMMA WindowIsRead ==
  ASSUME NEW b, NEW l, NEW f, NEW p, Headed(b, l, f, p), NEW u, Plausible(u), s1 = b,
         WindowHeld(b, WindowAt(l, f), u)
  PROVE  Encoded!WindowRead(u)
<1>1. PICK w : w = WindowAt(l, f)
  OBVIOUS
<1>2. /\ Encoded!OffsetWindowSize(b) = w /\ Encoded!OffsetRateAve(b) = w + 4
      /\ Encoded!OffsetLossFraction(b) = w + 6 /\ ~Encoded!FlagIsSet(b, Encoded!FLAG_LATENCY_SIGN)
  BY <1>1, HeadIs
<1>3. /\ b[w + 1] = Q(u.ave) /\ b[w + 2] = Q(u.ave - u.min) /\ b[w + 3] = Q(u.max - u.ave)
      /\ Encoded!GetUINT16(b, w + 4) = Encoded!QuantizeRate(u.rate)
      /\ Encoded!GetUINT16(b, w + 6) = Encoded!QuantizeLoss(u.lost, u.of)
      /\ Encoded!GetUINT16(b, 2) % 8192 = Q(u.offset)
  BY <1>1 DEF WindowHeld
<1>4. PICK ave \in Nat, min \in Int, max \in Int, offset \in Int :
        ave = u.ave /\ min = u.min /\ max = u.max /\ offset = u.offset
  BY PlausibleIs
<1>5. \A t \in Int : Encoded!UnquantizeTimeValue(Q(t)) \in Nat
  BY StepsIs DEF Q
<1>6. \A t : Encoded!Off(t) = Encoded!Abs(Encoded!UnquantizeTimeValue(Q(t)) - t)
  BY DEF Encoded!Off, Q
<1>7. PICK A \in Nat, M \in Nat, X \in Nat, O \in Nat :
        /\ A = Encoded!UnquantizeTimeValue(Q(ave)) /\ M = Encoded!UnquantizeTimeValue(Q(ave - min))
        /\ X = Encoded!UnquantizeTimeValue(Q(max - ave))
        /\ O = Encoded!UnquantizeTimeValue(Q(offset))
  <2>1. ave \in Int /\ ave - min \in Int /\ max - ave \in Int /\ offset \in Int
    OBVIOUS
  <2> QED
    BY <1>5, <2>1
<1>8. Encoded!GetLatencyAve(b) = A
  BY <1>2, <1>3, <1>4, <1>7 DEF Encoded!GetLatencyAve, Encoded!Time
<1>9. Encoded!GetLatencyMin(b) = A - M /\ Encoded!GetLatencyMax(b) = A + X
  BY <1>2, <1>3, <1>4, <1>7, <1>8 DEF Encoded!GetLatencyMin, Encoded!GetLatencyMax, Encoded!Time
<1>10. Encoded!GetWindowOffset(b) = O
  BY <1>3, <1>4, <1>7 DEF Encoded!GetWindowOffset
<1>11. Encoded!Abs(ave) = ave
  BY DEF Encoded!Abs
<1>12. /\ Encoded!Off(ave) = Encoded!Abs(A - ave) /\ Encoded!Off(offset) = Encoded!Abs(O - offset)
       /\ Encoded!Off(ave - min) = Encoded!Abs(M - (ave - min))
       /\ Encoded!Off(max - ave) = Encoded!Abs(X - (max - ave))
  BY <1>6, <1>7
<1>13. /\ Encoded!Abs((A - M) - min) <= Encoded!Abs(A - ave) + Encoded!Abs(M - (ave - min))
       /\ Encoded!Abs((A + X) - max) <= Encoded!Abs(A - ave) + Encoded!Abs(X - (max - ave))
  BY SMT DEF Encoded!Abs
<1>14. /\ Encoded!Abs(A - ave) <= Encoded!Abs(A - ave)
       /\ Encoded!Abs(O - offset) <= Encoded!Abs(O - offset)
  BY SMT DEF Encoded!Abs
<1>15. 800 * Encoded!Abs(Encoded!GetRateAve(b) - u.rate) <= u.rate + 800
  <2>1. Encoded!GetRateAve(b) = Encoded!UnquantizeRate(Encoded!QuantizeRate(u.rate))
    BY <1>2, <1>3 DEF Encoded!GetRateAve
  <2>2. u.rate \in Nat /\ u.rate < 1000000 /\ RateOk(u.rate)
    BY PlausibleIs, SMT
  <2>3. 800 * Encoded!Abs(Encoded!UnquantizeRate(Encoded!QuantizeRate(u.rate)) - u.rate)
          <= u.rate + 800
    BY <2>2, RateIs, SMT
  <2> QED
    BY <2>1, <2>3, SMT
<1>16. Encoded!LossRead(Encoded!GetUINT16(b, Encoded!OffsetLossFraction(b)), u)
  <2>1. u.of \in Nat /\ u.of > 0 /\ u.lost \in 0..u.of
    BY PlausibleIs, SMT
  <2>2. Encoded!LossRead(Encoded!QuantizeLoss(u.lost, u.of), u)
    BY <2>1, LossIs, SMT
  <2> QED
    BY <1>2, <1>3, <2>2
<1>17. /\ Encoded!Abs(Encoded!GetWindowOffset(b) - u.offset) <= Encoded!Off(u.offset)
       /\ Encoded!Abs(Encoded!GetLatencyAve(b) - u.ave) <= Encoded!Off(Encoded!Abs(u.ave))
  BY <1>4, <1>8, <1>10, <1>11, <1>12, <1>14
<1>18. /\ Encoded!Abs(Encoded!GetLatencyMin(b) - u.min)
            <= Encoded!Off(Encoded!Abs(u.ave)) + Encoded!Off(u.ave - u.min)
       /\ Encoded!Abs(Encoded!GetLatencyMax(b) - u.max)
            <= Encoded!Off(Encoded!Abs(u.ave)) + Encoded!Off(u.max - u.ave)
  BY <1>4, <1>9, <1>11, <1>12, <1>13
<1> QED
  BY <1>15, <1>16, <1>17, <1>18, Zenon DEF Encoded!WindowRead

LEMMA FlowIsRead ==
  ASSUME NEW b, NEW f, NEW flow, Headed(b, flow.dst.len, f, flow.protocol), s1 = b,
         FlowHeld(b, flow.dst.len, f, flow)
  PROVE  Encoded!FlowRead(flow)
<1>1. PICK l : l = flow.dst.len /\ l \in {4, 16} /\ f \in {0, 1}
  BY DEF Headed
<1>2. /\ Encoded!OffsetSrc(b) = 4 + l /\ Encoded!OffsetDstPort(b) = 4 + 2 * l
      /\ Encoded!OffsetFlowId(b) = 8 + 2 * l
      /\ (Encoded!FlagIsSet(b, Encoded!FLAG_FLOW_ID) <=> f = 1) /\ b[0] % 16 = flow.protocol
  BY <1>1, HeadIs
<1>3. /\ \A i \in 0..l - 1 : b[4 + i] = flow.dst.byte /\ b[4 + l + i] = flow.src.byte
      /\ Encoded!GetUINT16(b, 4 + 2 * l) = flow.dst.port
      /\ Encoded!GetUINT16(b, 6 + 2 * l) = flow.src.port
      /\ f = (IF flow.id = 1 THEN 0 ELSE 1)
      /\ f = 1 => Encoded!GetUINT32(b, 8 + 2 * l) = flow.id
  BY <1>1 DEF FlowHeld, DstHeld, SrcHeld
<1>4. 4 + 2 * l + 2 = 6 + 2 * l
  BY <1>1
<1>5. Encoded!GetFlowId(b) = IF flow.id = 1 THEN 0 ELSE flow.id
  BY <1>1, <1>2, <1>3 DEF Encoded!GetFlowId
<1> QED
  BY <1>1, <1>2, <1>3, <1>4, <1>5 DEF Encoded!FlowRead, Encoded!OFFSET_DST

\* The inductive invariant: every field is at its place, as it was given.
BytesInv ==
  LET l == s2.flow.dst.len
      f == IF s2.flow.id = 1 THEN 0 ELSE 1
  IN  /\ s2 = [flow |-> s2.flow, window |-> s2.window]
      /\ Plausible(s2.window)
      /\ Headed(s1, l, f, s2.flow.protocol) /\ FlowHeld(s1, l, f, s2.flow)
      /\ s1[WindowAt(l, f)] = Q(s2.window.size)
      /\ s3 > 0 => WindowHeld(s1, WindowAt(l, f), s2.window)

LEMMA ReportIsRead ==
  ASSUME BytesInv
  PROVE  Encoded!ReportRead
<1>1. PICK l, f : l = s2.flow.dst.len /\ f = IF s2.flow.id = 1 THEN 0 ELSE 1
  OBVIOUS
<1>2. /\ Plausible(s2.window) /\ Headed(s1, l, f, s2.flow.protocol) /\ FlowHeld(s1, l, f, s2.flow)
      /\ s1[WindowAt(l, f)] = Q(s2.window.size)
      /\ s3 > 0 => WindowHeld(s1, WindowAt(l, f), s2.window)
  BY <1>1 DEF BytesInv
<1>3. /\ Encoded!InitFromBuffer(s1) /\ s1[1] <= Encoded!MAX_LENGTH
      /\ Encoded!OffsetWindowSize(s1) = WindowAt(l, f)
  BY <1>2, HeadIs
<1>4. Encoded!FlowRead(s2.flow)
  BY <1>1, <1>2, FlowIsRead
<1>5. s3 > 0 => Encoded!WindowRead(s2.window)
  BY <1>2, WindowIsRead
<1>6. Encoded!Abs(Encoded!Time(s1, Encoded!OffsetWindowSize(s1)) - s2.window.size)
        <= Encoded!Off(s2.window.size)
  <2>1. PICK size \in Int : size = s2.window.size
    BY <1>2, PlausibleIs
  <2>2. Encoded!UnquantizeTimeValue(Q(size)) \in Nat
    BY StepsIs DEF Q
  <2>3. PICK a : a = Encoded!Abs(Encoded!UnquantizeTimeValue(Q(size)) - size) /\ a \in Int
    BY <2>2 DEF Encoded!Abs
  <2>4. Encoded!Off(size) = a
    BY <2>3 DEF Encoded!Off, Q
  <2>5. Encoded!Time(s1, Encoded!OffsetWindowSize(s1)) = Encoded!UnquantizeTimeValue(Q(size))
    BY <1>2, <1>3, <2>1 DEF Encoded!Time
  <2> QED
    BY <2>1, <2>3, <2>4, <2>5
<1> QED
  BY <1>3, <1>4, <1>5, <1>6 DEF Encoded!ReportRead

LEMMA ReportStarts ==
  ASSUME Encoded!Init
  PROVE  BytesInv
<1>1. PICK protocol \in ReportProtocols, src \in ReportAddresses, dst \in ReportAddresses,
           id \in ReportFlows, u \in EndedWindows :
        /\ src.len = dst.len /\ s1 = Encoded!Laid(protocol, src, dst, id, u.size)
        /\ s2 = [flow |-> [protocol |-> protocol, src |-> src, dst |-> dst, id |-> id],
                 window |-> u]
        /\ s3 = 0
  BY DEF Encoded!Init
<1>2. protocol \in Nat /\ protocol < 16 /\ Good(src) /\ Good(dst)
  BY ReportAssumption, SMT DEF ReportChoices, Good
<1>3. Plausible(u)
  BY ReportAssumption DEF ReportChoices
<1>4. Word(id)
  BY ReportAssumption, SMT DEF ReportChoices, Word
<1>5. u.size \in Int
  BY <1>3, PlausibleIs
<1> DEFINE f == IF id = 1 THEN 0 ELSE 1
           flow == [protocol |-> protocol, src |-> src, dst |-> dst, id |-> id]
<1>6. /\ Headed(s1, dst.len, f, protocol) /\ s1[WindowAt(dst.len, f)] = Q(u.size)
      /\ FlowHeld(s1, dst.len, f, flow)
  BY <1>1, <1>2, <1>4, <1>5, LaidIs
<1>7. s2.flow = flow /\ s2.window = u /\ flow.dst = dst /\ flow.id = id /\ flow.protocol = protocol
  BY <1>1
<1> HIDE DEF flow
<1>8. ~(s3 > 0) /\ s2 = [flow |-> flow, window |-> u]
  BY <1>1 DEF flow
<1> QED
  BY <1>3, <1>6, <1>7, <1>8 DEF BytesInv

LEMMA ReportStep ==
  ASSUME BytesInv, Encoded!Next
  PROVE  BytesInv'
<1>1. PICK u \in EndedWindows : Encoded!Update(u)
  BY DEF Encoded!Next
<1>2. Plausible(u)
  BY ReportAssumption DEF ReportChoices
<1>3. s1' = Renewed(s1, u) /\ s2' = [s2 EXCEPT !.window = u]
  BY <1>1 DEF Encoded!Update, Renewed
<1>4. PICK l, f, flow :
        l = s2.flow.dst.len /\ f = (IF s2.flow.id = 1 THEN 0 ELSE 1) /\ flow = s2.flow
  OBVIOUS
<1>5. /\ s2 = [flow |-> flow, window |-> s2.window]
      /\ Headed(s1, l, f, flow.protocol) /\ FlowHeld(s1, l, f, flow)
  BY <1>4 DEF BytesInv
<1>6. /\ Headed(s1', l, f, flow.protocol) /\ FlowHeld(s1', l, f, flow)
      /\ s1'[WindowAt(l, f)] = Q(u.size) /\ WindowHeld(s1', WindowAt(l, f), u)
  BY <1>2, <1>3, <1>5, RenewedIs
<1>7. s2' = [flow |-> flow, window |-> u] /\ s2'.flow = flow /\ s2'.window = u
  BY <1>3, <1>5
<1> QED
  BY <1>2, <1>4, <1>6, <1>7 DEF BytesInv, Headed, FlowHeld, DstHeld, SrcHeld, WindowHeld

\* A receiver takes every report, tells of which flow it is, and reads of the window
\* what was set last, as finely as its few bits can: MgenAnalytic::Report.
THEOREM ReportsAreRead == MCSpec => []ReportRead
<1> DEFINE I == part = "bytes" => BytesInv
<1>1. MCInit => I
  <2> SUFFICES ASSUME MCInit, part = "bytes" PROVE BytesInv
    OBVIOUS
  <2> QED
    BY ReportStarts DEF MCInit
<1>2. I /\ [MCNext]_<<part, vars, reporter, others>> => I'
  <2> SUFFICES ASSUME I, [MCNext]_<<part, vars, reporter, others>>, part' = "bytes"
               PROVE  BytesInv'
    OBVIOUS
  <2>1. part = "bytes" /\ (Encoded!Next \/ UNCHANGED others)
    BY DEF MCNext, Windows, Reporting
  <2>2. CASE UNCHANGED others
    BY <2>1, <2>2 DEF others, BytesInv, Headed, FlowHeld, DstHeld, SrcHeld, WindowHeld
  <2> QED
    BY <2>1, <2>2, ReportStep
<1>3. I => ReportRead
  BY ReportIsRead DEF ReportRead
<1> QED
  BY <1>1, <1>2, <1>3, PTL DEF MCSpec
================================================================================
