---------------------------- MODULE Reception_proofs ----------------------------
(***************************************************************************)
(* Sockets that are shared, for any flows, groups, ports, interfaces and   *)
(* numbers of them.  The references of a socket are those of its users, so *)
(* nobody closes a socket that another uses, and what was asked for is     *)
(* heard until it is given up (Reception); and an open socket has the      *)
(* options its transport was told last (SocketOptions, which is Sharing in *)
(* MCReception).                                                           *)
(***************************************************************************)
EXTENDS MCReception, SequenceTheorems, FiniteSetTheorems, FunctionTheorems, WellFoundedInduction,
        NaturalsInduction, TLAPS

-------------------------------------------------------------------------------
(* Lists and numbers.                                                      *)

\* Of a set of numbers that is not empty one is the least.
LEMMA LeastOf ==
  ASSUME NEW T, T \subseteq Nat, T # {}
  PROVE  \E x \in T : \A y \in T : x <= y
<1> DEFINE Less == OpToRel(<, Nat)
<1>1. IsWellFoundedOn(Less, Nat)
  BY NatLessThanWellFounded
<1>2. \A x, y \in Nat : y < x => <<y, x>> \in Less
  BY DEF OpToRel
<1> HIDE DEF Less
<1>3. PICK x \in T : \A y \in T : ~(<<y, x>> \in Less)
  BY <1>1, WFMin
<1>4. \A y \in T : x \in Nat /\ y \in Nat /\ ~(y < x)
  BY <1>2, <1>3
<1>5. \A y \in T : x <= y
  BY <1>4
<1> QED
  BY <1>3, <1>5

\* RemoveAt closes the gap at position p.
LEMMA RemoveAtProperties ==
  ASSUME NEW S, NEW l \in Seq(S), NEW p \in 1..Len(l)
  PROVE  /\ RemoveAt(l, p) \in Seq(S)
         /\ Len(RemoveAt(l, p)) = Len(l) - 1
         /\ \A i \in 1..(Len(l) - 1) :
              RemoveAt(l, p)[i] = IF i < p THEN l[i] ELSE l[i + 1]
<1> DEFINE a == SubSeq(l, 1, p - 1)
           b == SubSeq(l, p + 1, Len(l))
           n == Len(l)
<1>1. n \in Nat /\ p \in Int /\ p >= 1 /\ p <= n /\ \A i \in 1..n : l[i] \in S
  BY LenProperties
<1>2. a \in Seq(S) /\ Len(a) = p - 1 /\ \A i \in 1..(p - 1) : a[i] = l[i]
  <2>1. \A i \in 1..(p - 1) : l[i] \in S
    BY <1>1
  <2>2. /\ a \in Seq(S) /\ Len(a) = (IF 1 <= p - 1 THEN (p - 1) - 1 + 1 ELSE 0)
        /\ \A i \in 1..((p - 1) - 1 + 1) : a[i] = l[1 + i - 1]
    BY <1>1, <2>1, SubSeqProperties
  <2> HIDE DEF a
  <2> QED
    BY <1>1, <2>2
<1>3. /\ b \in Seq(S) /\ Len(b) = n - p
      /\ \A i \in 1..(n - p) : b[i] = l[p + i]
  <2>1. \A i \in (p + 1)..n : l[i] \in S
    BY <1>1
  <2>2. /\ b \in Seq(S) /\ Len(b) = (IF p + 1 <= n THEN n - (p + 1) + 1 ELSE 0)
        /\ \A i \in 1..(n - (p + 1) + 1) : b[i] = l[(p + 1) + i - 1]
    BY <1>1, <2>1, SubSeqProperties
  <2> HIDE DEF b
  <2> QED
    BY <1>1, <2>2
<1>4. RemoveAt(l, p) = a \o b
  BY DEF RemoveAt
<1> HIDE DEF a, b
<1> DEFINE w == a \o b
<1>5. /\ w \in Seq(S) /\ Len(w) = Len(a) + Len(b)
      /\ \A i \in 1..(Len(a) + Len(b)) : w[i] = IF i <= Len(a) THEN a[i] ELSE b[i - Len(a)]
  BY <1>2, <1>3, ConcatProperties
<1> HIDE DEF w
<1>6. Len(w) = n - 1 /\ \A i \in 1..(n - 1) : w[i] = IF i <= p - 1 THEN a[i] ELSE b[i - (p - 1)]
  BY <1>1, <1>2, <1>3, <1>5
<1>7. ASSUME NEW i \in 1..(n - 1) PROVE w[i] = IF i < p THEN l[i] ELSE l[i + 1]
  <2>1. CASE i < p
    <3>1. i \in 1..(p - 1) /\ i <= p - 1
      BY <1>1, <2>1
    <3> QED
      BY <1>2, <1>6, <2>1, <3>1
  <2>2. CASE ~(i < p)
    <3>1. ~(i <= p - 1) /\ i - (p - 1) \in 1..(n - p) /\ p + (i - (p - 1)) = i + 1
      BY <1>1, <2>2
    <3> QED
      BY <1>3, <1>6, <2>2, <3>1
  <2> QED
    BY <2>1, <2>2
<1> HIDE DEF n
<1> QED
  BY <1>4, <1>5, <1>6, <1>7 DEF n, w
-------------------------------------------------------------------------------

\* l holds each of D once.
Lists(l, D) ==
  /\ l \in Seq(Nat \ {0})
  /\ \A i, j \in 1..Len(l) : l[i] = l[j] => i = j
  /\ D = {l[i] : i \in 1..Len(l)}

LEMMA MinIs ==
  ASSUME NEW T, T \subseteq Nat, T # {}
  PROVE  Min(T) \in T
BY LeastOf DEF Min

LEMMA PrependLists ==
  ASSUME NEW l, NEW D, Lists(l, D), NEW t \in Nat \ {0}, t \notin D
  PROVE  Lists(<<t>> \o l, D \cup {t}) /\ Head(<<t>> \o l) = t
<1> DEFINE w == <<t>> \o l
           n == Len(l)
<1>1. n \in Nat /\ l \in Seq(Nat \ {0}) /\ \A i \in 1..n : l[i] \in Nat \ {0}
  BY LenProperties DEF Lists
<1>2. <<t>> \in Seq(Nat \ {0}) /\ Len(<<t>>) = 1 /\ <<t>>[1] = t
  OBVIOUS
<1>3. /\ w \in Seq(Nat \ {0}) /\ Len(w) = 1 + n
      /\ \A i \in 1..(1 + n) : w[i] = IF i <= 1 THEN <<t>>[i] ELSE l[i - 1]
  BY <1>1, <1>2, ConcatProperties
<1> HIDE DEF w, n
<1>4. w[1] = t /\ \A i \in 1..n : w[i + 1] = l[i]
  <2>1. 1 \in 1..(1 + n) /\ w[1] = t
    BY <1>1, <1>2, <1>3
  <2>2. ASSUME NEW i \in 1..n PROVE w[i + 1] = l[i]
    <3>1. i + 1 \in 1..(1 + n) /\ ~(i + 1 <= 1) /\ (i + 1) - 1 = i
      BY <1>1
    <3> QED
      BY <1>3, <3>1
  <2> QED
    BY <2>1, <2>2
<1>5. \A i \in 1..(1 + n) : i = 1 \/ (i - 1 \in 1..n /\ w[i] = l[i - 1])
  <2>1. ASSUME NEW i \in 1..(1 + n), i # 1 PROVE i - 1 \in 1..n /\ w[i] = l[i - 1]
    BY <1>1, <1>3, <2>1
  <2> QED
    BY <2>1
<1>6. \A i \in 1..n : l[i] # t
  BY DEF Lists, n
<1>7. \A i, j \in 1..n : l[i] = l[j] => i = j
  BY DEF Lists, n
<1>8. ASSUME NEW i \in 1..(1 + n), NEW j \in 1..(1 + n), w[i] = w[j] PROVE i = j
  <2>1. CASE i = 1
    BY <1>4, <1>5, <1>6, <1>8, <2>1
  <2>2. CASE j = 1
    BY <1>4, <1>5, <1>6, <1>8, <2>2
  <2>3. CASE i # 1 /\ j # 1
    <3>1. i - 1 = j - 1
      BY <1>5, <1>7, <1>8, <2>3
    <3> QED
      BY <1>1, <3>1
  <2> QED
    BY <2>1, <2>2, <2>3
<1>9. D \cup {t} = {w[i] : i \in 1..(1 + n)}
  <2>1. D = {l[i] : i \in 1..n}
    BY DEF Lists, n
  <2>2. ASSUME NEW i \in 1..n PROVE i + 1 \in 1..(1 + n)
    BY <1>1
  <2>3. \A x \in D : \E i \in 1..(1 + n) : w[i] = x
    BY <1>4, <2>1, <2>2
  <2>4. \A i \in 1..(1 + n) : w[i] \in D \cup {t}
    BY <1>4, <1>5, <2>1
  <2>5. 1 \in 1..(1 + n)
    BY <1>1
  <2> QED
    BY <1>4, <2>3, <2>4, <2>5
<1>10. Head(w) = t
  BY <1>1, <1>3, <1>4, HeadTailProperties, EmptySeq
<1> QED
  BY <1>3, <1>8, <1>9, <1>10 DEF Lists, w

LEMMA RemoveLists ==
  ASSUME NEW l, NEW D, Lists(l, D), NEW t \in D
  PROVE  Lists(RemoveFirst(l, t), D \ {t})
<1> DEFINE n == Len(l)
           I == {i \in 1..n : l[i] = t}
           p == Min(I)
           w == RemoveAt(l, p)
<1>1. n \in Nat /\ l \in Seq(Nat \ {0})
  BY LenProperties DEF Lists
<1>2. I # {}
  BY DEF Lists
<1>3. p \in 1..n /\ l[p] = t
  <2>1. I \subseteq Nat
    BY <1>1
  <2>2. Min(I) \in I
    BY <1>2, <2>1, MinIs
  <2> QED
    BY <2>2
<1>4. RemoveFirst(l, t) = w
  BY <1>2 DEF RemoveFirst, SelectInSeq
<1> HIDE DEF p
<1>5. /\ w \in Seq(Nat \ {0}) /\ Len(w) = n - 1
      /\ \A i \in 1..(n - 1) : w[i] = IF i < p THEN l[i] ELSE l[i + 1]
  BY <1>1, <1>3, RemoveAtProperties
<1> HIDE DEF w, n, I
<1> DEFINE src(i) == IF i < p THEN i ELSE i + 1
<1>6. \A i \in 1..(n - 1) : src(i) \in 1..n /\ src(i) # p /\ w[i] = l[src(i)]
  <2>1. ASSUME NEW i \in 1..(n - 1) PROVE src(i) \in 1..n /\ src(i) # p /\ w[i] = l[src(i)]
    <3>1. i \in Int /\ p \in Int
      BY <1>1, <1>3
    <3>2. CASE i < p
      <4>1. src(i) = i /\ i \in 1..n /\ i # p
        BY <1>1, <3>1, <3>2
      <4> QED
        BY <1>5, <3>2, <4>1
    <3>3. CASE ~(i < p)
      <4>1. src(i) = i + 1 /\ i + 1 \in 1..n /\ i + 1 # p
        BY <1>1, <3>1, <3>3
      <4> QED
        BY <1>5, <3>3, <4>1
    <3> QED
      BY <3>2, <3>3
  <2> QED
    BY <2>1
<1>7. \A i, j \in 1..(n - 1) : src(i) = src(j) => i = j
  BY <1>1, <1>3
<1>8. \A j \in 1..n : j # p => \E i \in 1..(n - 1) : src(i) = j
  <2>1. ASSUME NEW j \in 1..n, j # p PROVE \E i \in 1..(n - 1) : src(i) = j
    <3>1. CASE j < p
      <4>1. j \in 1..(n - 1) /\ src(j) = j
        BY <1>1, <1>3, <3>1
      <4> QED
        BY <4>1
    <3>2. CASE ~(j < p)
      <4>1. j - 1 \in 1..(n - 1) /\ src(j - 1) = j
        BY <1>1, <1>3, <2>1, <3>2
      <4> QED
        BY <4>1
    <3> QED
      BY <3>1, <3>2
  <2> QED
    BY <2>1
<1> HIDE DEF src
<1>9. /\ \A i, j \in 1..n : l[i] = l[j] => i = j
      /\ D = {l[i] : i \in 1..n}
  BY DEF Lists, n
<1>10. \A i, j \in 1..(n - 1) : w[i] = w[j] => i = j
  BY <1>6, <1>7, <1>9
<1>11. D \ {t} = {w[i] : i \in 1..(n - 1)}
  <2>1. \A i \in 1..(n - 1) : w[i] \in D \ {t}
    BY <1>3, <1>6, <1>9
  <2>2. \A x \in D \ {t} : \E i \in 1..(n - 1) : w[i] = x
    BY <1>3, <1>6, <1>8, <1>9
  <2> QED
    BY <2>1, <2>2
<1>12. Lists(w, D \ {t})
  BY <1>5, <1>10, <1>11 DEF Lists
<1> QED
  BY <1>4, <1>12

LEMMA AppendLists ==
  ASSUME NEW l, NEW D, Lists(l, D), NEW t \in Nat \ {0}, t \notin D
  PROVE  Lists(Append(l, t), D \cup {t})
<1> DEFINE w == Append(l, t)
           n == Len(l)
<1>1. n \in Nat /\ l \in Seq(Nat \ {0})
  BY LenProperties DEF Lists
<1>2. w \in Seq(Nat \ {0}) /\ Len(w) = n + 1 /\ w[n + 1] = t /\ \A i \in 1..n : w[i] = l[i]
  BY <1>1, AppendProperties
<1> HIDE DEF w, n
<1>3. /\ \A i, j \in 1..n : l[i] = l[j] => i = j
      /\ D = {l[i] : i \in 1..n}
  BY DEF Lists, n
<1>4. \A i \in 1..(n + 1) : i = n + 1 \/ i \in 1..n
  BY <1>1
<1>5. \A i \in 1..n : i \in 1..(n + 1)
  BY <1>1
<1>6. n + 1 \in 1..(n + 1)
  BY <1>1
<1>7. \A i, j \in 1..(n + 1) : w[i] = w[j] => i = j
  BY <1>2, <1>3, <1>4
<1>8. D \cup {t} = {w[i] : i \in 1..(n + 1)}
  <2>1. \A i \in 1..(n + 1) : w[i] \in D \cup {t}
    BY <1>2, <1>3, <1>4
  <2>2. \A x \in D \cup {t} : \E i \in 1..(n + 1) : w[i] = x
    BY <1>2, <1>3, <1>5, <1>6
  <2> QED
    BY <2>1, <2>2
<1> QED
  BY <1>2, <1>7, <1>8 DEF Lists, w

\* A list of n has at most n members, so that one of 1 to n + 1 is not among them.
LEMMA NewNumber ==
  ASSUME NEW l, NEW D, Lists(l, D)
  PROVE  Min((1..Len(l) + 1) \ D) \in (Nat \ {0}) \ D
<1> DEFINE n == Len(l)
           T == (1..n + 1) \ D
<1>1. n \in Nat /\ l \in Seq(Nat \ {0}) /\ l \in [1..n -> Nat \ {0}]
  BY LenProperties DEF Lists
<1>2. T # {}
  <2>1. SUFFICES ASSUME 1..n + 1 \subseteq D PROVE FALSE
    OBVIOUS
  <2> DEFINE at == [x \in 1..n + 1 |-> CHOOSE i \in 1..n : l[i] = x]
  <2>2. \A x \in 1..n + 1 : at[x] \in 1..n /\ l[at[x]] = x
    BY <2>1 DEF Lists
  <2>3. at \in [1..n + 1 -> 1..n]
    BY <2>2
  <2>4. /\ IsFiniteSet(1..n + 1) /\ Cardinality(1..n + 1) = n + 1
        /\ IsFiniteSet(1..n) /\ Cardinality(1..n) = n
    <3>1. n + 1 \in Int /\ n \in Int /\ 1 \in Int /\ ~(1 > n + 1) /\ (n + 1) - 1 + 1 = n + 1
      BY <1>1
    <3>2. IF 1 > n THEN 0 = n ELSE n - 1 + 1 = n
      BY <1>1
    <3> HIDE DEF n
    <3> QED
      BY <3>1, <3>2, FS_Interval
  <2>5. Cardinality(1..n) < Cardinality(1..n + 1)
    BY <1>1, <2>4
  <2> HIDE DEF at, n
  <2>6. PICK x, y \in 1..n + 1 : x # y /\ at[x] = at[y]
    BY <2>3, <2>4, <2>5, FS_PigeonHole
  <2> QED
    BY <2>2, <2>6
<1>3. T \subseteq Nat \ {0}
  BY <1>1
<1> HIDE DEF T
<1>4. Min(T) \in T
  BY <1>2, <1>3, MinIs
<1> QED
  BY <1>3, <1>4 DEF T
-------------------------------------------------------------------------------
(* The invariant, of any sockets s, entries d, transports ft of the flows  *)
(* and numbers ls of LISTENs.                                              *)

\* Each IGNORE takes back a LISTEN, and no socket fails to open: a flow whose socket
\* did not open keeps the transport, and gives back a reference it does not have.
Proper == Tidy /\ FALSE \notin OpenAnswers

Interfaces == Interface \cup {NoInterface}

Socket ==
  [srcPort : Int, interface : Interfaces, references : Nat, groupCount : Nat,
   open : BOOLEAN, bound : BOOLEAN, input : BOOLEAN]

EntryType ==
  [group : Group, interface : Interfaces, port : Port \cup {NoPort}, transport : Nat]

SocketsTyped(s) ==
  /\ s = [list |-> s.list, of |-> s.of, members |-> s.members]
  /\ Lists(s.list, DOMAIN s.of)
  /\ s.of \in [DOMAIN s.of -> Socket]

UsersTyped(d, ft, ls) ==
  /\ d \in Seq(EntryType)
  /\ ft \in [Flow -> Nat]
  /\ ls \in [Port -> Nat]

FlowsAt(ft, t) == {f \in Flow : ft[f] = t}
GroupsAt(d, t) == {i \in 1..Len(d) : d[i].transport = t}

Uses(d, ft, t) == Cardinality(FlowsAt(ft, t)) + Cardinality(GroupsAt(d, t))

\* Who uses a transport uses one of the list.
Pointed(D, d, ft) ==
  /\ \A i \in 1..Len(d) : d[i].transport \in D \cup {NoTransport}
  /\ \A f \in Flow : ft[f] \in D \cup {NoTransport}

\* A socket with n users besides a LISTEN.
Counted(x, n) ==
  /\ x.references = n + (IF x.input THEN 1 ELSE 0)
  /\ x.open <=> x.references > 0
  /\ (x.open /\ x.srcPort # NoPort) => x.bound

MemberOf(e) == Member(e.transport, e)

ActiveIn(d) == {i \in 1..Len(d) : d[i].transport # NoTransport}

\* The system has the groups of the active entries, and each for one of them.
Joined(members, d) ==
  /\ members = {MemberOf(d[i]) : i \in ActiveIn(d)}
  /\ \A i, j \in ActiveIn(d) : MemberOf(d[i]) = MemberOf(d[j]) => i = j

HeardOn(of, p) == \E t \in DOMAIN of : of[t].srcPort = p /\ of[t].input

Holds(s, d, ft, ls) ==
  /\ SocketsTyped(s)
  /\ UsersTyped(d, ft, ls)
  /\ Pointed(DOMAIN s.of, d, ft)
  /\ \A t \in DOMAIN s.of : Counted(s.of[t], Uses(d, ft, t))
  /\ \A t \in DOMAIN s.of : s.of[t].groupCount = Cardinality(GroupsAt(d, t))
  /\ Joined(s.members, d)
  /\ \A p \in Port : ls[p] > 0 <=> HeardOn(s.of, p)

LEMMA Finite ==
  ASSUME Proper, NEW d, NEW ft, NEW ls, UsersTyped(d, ft, ls), NEW t
  PROVE  /\ IsFiniteSet(FlowsAt(ft, t)) /\ Cardinality(FlowsAt(ft, t)) \in Nat
         /\ IsFiniteSet(GroupsAt(d, t)) /\ Cardinality(GroupsAt(d, t)) \in Nat
<1>1. IsFiniteSet(FlowsAt(ft, t))
  BY FS_Subset, ReceptionAssumption DEF FlowsAt, Proper
<1>2. Len(d) \in Nat
  BY LenProperties DEF UsersTyped
<1>3. IsFiniteSet(1..Len(d))
  BY <1>2, FS_Interval
<1>4. IsFiniteSet(GroupsAt(d, t))
  BY <1>3, FS_Subset DEF GroupsAt
<1> QED
  BY <1>1, <1>4, FS_CardinalityType

\* A socket that nobody uses has no group, and is not listened to.
LEMMA Unused ==
  ASSUME Proper, NEW s, NEW d, NEW ft, NEW ls, Holds(s, d, ft, ls), NEW t \in DOMAIN s.of,
         s.of[t].references = 0
  PROVE  /\ ~s.of[t].open /\ ~s.of[t].input
         /\ FlowsAt(ft, t) = {} /\ GroupsAt(d, t) = {}
<1>1. Counted(s.of[t], Uses(d, ft, t)) /\ UsersTyped(d, ft, ls) /\ s.of[t] \in Socket
  BY DEF Holds, SocketsTyped
<1> DEFINE a == Cardinality(FlowsAt(ft, t))
           b == Cardinality(GroupsAt(d, t))
<1>2. a \in Nat /\ b \in Nat
  BY <1>1, Finite
<1>3. a = 0 /\ b = 0 /\ ~s.of[t].input /\ ~s.of[t].open
  <2>1. 0 = (a + b) + (IF s.of[t].input THEN 1 ELSE 0)
    BY <1>1 DEF Counted, Uses
  <2> HIDE DEF a, b
  <2>2. ~s.of[t].open
    BY <1>1 DEF Counted
  <2> QED
    BY <1>2, <2>1, <2>2
<1> QED
  BY <1>1, <1>3, Finite, FS_EmptySet

\* Nothing is said of the interface of a socket, nor of whether a closed one is
\* bound.
LEMMA AlikeHolds ==
  ASSUME NEW s, NEW d, NEW ft, NEW ls, Holds(s, d, ft, ls), NEW t \in DOMAIN s.of,
         NEW y \in Socket,
         y.references = s.of[t].references, y.input = s.of[t].input,
         y.groupCount = s.of[t].groupCount, y.open = s.of[t].open,
         y.srcPort = s.of[t].srcPort,
         (y.open /\ y.srcPort # NoPort) => y.bound
  PROVE  Holds([s EXCEPT !.of[t] = y], d, ft, ls)
<1> DEFINE of == [s.of EXCEPT ![t] = y]
           r == [s EXCEPT !.of[t] = y]
<1>1. s = [list |-> s.list, of |-> s.of, members |-> s.members] /\ s.of \in [DOMAIN s.of -> Socket]
  BY DEF Holds, SocketsTyped
<1>2. r = [list |-> s.list, of |-> of, members |-> s.members]
  BY <1>1
<1>3. DOMAIN of = DOMAIN s.of /\ of \in [DOMAIN s.of -> Socket] /\ of[t] = y
      /\ \A u \in DOMAIN s.of : u # t => of[u] = s.of[u]
  BY <1>1
<1> HIDE DEF of, r
<1>4. r.list = s.list /\ r.of = of /\ r.members = s.members
  BY <1>2
<1>5. SocketsTyped(r)
  BY <1>2, <1>3, <1>4 DEF Holds, SocketsTyped
<1>6. ASSUME NEW u \in DOMAIN of
      PROVE  Counted(of[u], Uses(d, ft, u)) /\ of[u].groupCount = Cardinality(GroupsAt(d, u))
  BY <1>3 DEF Holds, Counted
<1>7. ASSUME NEW p PROVE HeardOn(of, p) <=> HeardOn(s.of, p)
  BY <1>3 DEF HeardOn
<1> QED
  BY <1>3, <1>4, <1>5, <1>6, <1>7 DEF Holds, r

LEMMA FirstIs ==
  ASSUME NEW s, SocketsTyped(s), NEW T, T \subseteq DOMAIN s.of, T # {}
  PROVE  First(s, T) \in T /\ First(s, T) # NoTransport
<1> DEFINE I == {i \in DOMAIN s.list : s.list[i] \in T}
<1>1. /\ s.list \in Seq(Nat \ {0}) /\ DOMAIN s.list = 1..Len(s.list) /\ Len(s.list) \in Nat
      /\ DOMAIN s.of = {s.list[i] : i \in 1..Len(s.list)}
  BY LenProperties DEF SocketsTyped, Lists
<1>2. I # {} /\ I \subseteq Nat
  BY <1>1
<1>3. Min(I) \in I
  BY <1>2, MinIs
<1>4. \A i \in 1..Len(s.list) : s.list[i] \in Nat \ {0}
  BY <1>1, ElementOfSeq
<1> QED
  BY <1>1, <1>3, <1>4 DEF First, NoTransport
\* A new transport has no users.
LEMMA PrependedHolds ==
  ASSUME Proper, NEW s, NEW d, NEW ft, NEW ls, Holds(s, d, ft, ls),
         NEW port \in Port \cup {NoPort},
         NEW r, r = Prepended(s, port), NEW t, t = Head(r.list)
  PROVE  /\ Holds(r, d, ft, ls)
         /\ t \in DOMAIN r.of /\ t # NoTransport /\ r.of[t] = NewTransport(port)
         /\ r.members = s.members
<1> DEFINE n == Min((1..Len(s.list) + 1) \ DOMAIN s.of)
           of == [u \in DOMAIN s.of \cup {n} |-> IF u = n THEN NewTransport(port) ELSE s.of[u]]
<1>1. /\ s = [list |-> s.list, of |-> s.of, members |-> s.members]
      /\ s.of \in [DOMAIN s.of -> Socket] /\ Lists(s.list, DOMAIN s.of)
  BY DEF Holds, SocketsTyped
<1>2. n \in Nat \ {0} /\ n \notin DOMAIN s.of
  BY <1>1, NewNumber
<1>3. r = [s EXCEPT !.list = <<n>> \o @, !.of = of]
  BY DEF Prepended
<1>4. NewTransport(port) \in Socket /\ ~NewTransport(port).open /\ ~NewTransport(port).input
      /\ NewTransport(port).references = 0 /\ NewTransport(port).groupCount = 0
  <2>1. port \in Int
    BY ReceptionAssumption DEF Proper, NoPort
  <2> QED
    BY <2>1 DEF NewTransport, Socket, Interfaces
<1>5. /\ DOMAIN of = DOMAIN s.of \cup {n} /\ of[n] = NewTransport(port)
      /\ \A u \in DOMAIN s.of : of[u] = s.of[u]
      /\ of \in [DOMAIN of -> Socket]
  BY <1>1, <1>2, <1>4
<1> HIDE DEF n, of
<1>6. r = [list |-> <<n>> \o s.list, of |-> of, members |-> s.members]
  BY <1>1, <1>3
<1>7. r.list = <<n>> \o s.list /\ r.of = of /\ r.members = s.members
  BY <1>6
<1>8. Lists(r.list, DOMAIN of) /\ t = n
  BY <1>1, <1>2, <1>5, <1>7, PrependLists
<1>9. SocketsTyped(r)
  BY <1>5, <1>6, <1>7, <1>8 DEF SocketsTyped
<1>10. UsersTyped(d, ft, ls) /\ Pointed(DOMAIN s.of, d, ft)
  BY DEF Holds
<1>11. Pointed(DOMAIN of, d, ft)
  BY <1>5, <1>10 DEF Pointed
<1>12. FlowsAt(ft, n) = {} /\ GroupsAt(d, n) = {}
  BY <1>2, <1>10 DEF Pointed, FlowsAt, GroupsAt, NoTransport
<1>13. Cardinality(GroupsAt(d, n)) = 0 /\ Uses(d, ft, n) = 0
  BY <1>12, FS_EmptySet DEF Uses
<1>14. Counted(of[n], Uses(d, ft, n)) /\ of[n].groupCount = Cardinality(GroupsAt(d, n))
  BY <1>4, <1>5, <1>13 DEF Counted
<1>15. \A u \in DOMAIN of : Counted(of[u], Uses(d, ft, u)) /\ of[u].groupCount = Cardinality(GroupsAt(d, u))
  BY <1>5, <1>14 DEF Holds
<1>16. \A p \in Port : HeardOn(of, p) <=> HeardOn(s.of, p)
  BY <1>4, <1>5 DEF HeardOn
<1>17. Holds(r, d, ft, ls)
  BY <1>7, <1>9, <1>10, <1>11, <1>15, <1>16 DEF Holds
<1> QED
  BY <1>2, <1>5, <1>7, <1>8, <1>17 DEF NoTransport

\* A transport without references can be deleted.
LEMMA DeletedHolds ==
  ASSUME Proper, NEW s, NEW d, NEW ft, NEW ls, Holds(s, d, ft, ls),
         NEW t \in DOMAIN s.of, s.of[t].references = 0
  PROVE  Holds(Deleted(s, t), d, ft, ls)
<1> DEFINE of == [u \in DOMAIN s.of \ {t} |-> s.of[u]]
           r == Deleted(s, t)
<1>1. /\ s = [list |-> s.list, of |-> s.of, members |-> s.members]
      /\ s.of \in [DOMAIN s.of -> Socket] /\ Lists(s.list, DOMAIN s.of)
      /\ UsersTyped(d, ft, ls) /\ Pointed(DOMAIN s.of, d, ft)
  BY DEF Holds, SocketsTyped
<1>2. r = [list |-> RemoveFirst(s.list, t), of |-> of, members |-> s.members]
  <2>1. r = [s EXCEPT !.list = RemoveFirst(s.list, t), !.of = of]
    BY DEF Deleted
  <2> HIDE DEF r, of
  <2> QED
    BY <1>1, <2>1
<1>3. /\ DOMAIN of = DOMAIN s.of \ {t}
      /\ \A u \in DOMAIN of : of[u] = s.of[u]
      /\ of \in [DOMAIN of -> Socket]
  BY <1>1
<1> HIDE DEF of, r
<1>4. r.list = RemoveFirst(s.list, t) /\ r.of = of /\ r.members = s.members
  BY <1>2
<1>5. SocketsTyped(r)
  BY <1>1, <1>2, <1>3, <1>4, RemoveLists DEF SocketsTyped
<1>6. ~s.of[t].input /\ FlowsAt(ft, t) = {} /\ GroupsAt(d, t) = {}
  BY Unused
<1>7. Pointed(DOMAIN of, d, ft)
  BY <1>1, <1>3, <1>6 DEF Pointed, FlowsAt, GroupsAt
<1>8. \A u \in DOMAIN of : Counted(of[u], Uses(d, ft, u)) /\ of[u].groupCount = Cardinality(GroupsAt(d, u))
  BY <1>3 DEF Holds
<1>9. \A p \in Port : HeardOn(of, p) <=> HeardOn(s.of, p)
  BY <1>3, <1>6 DEF HeardOn
<1>10. Holds(r, d, ft, ls)
  BY <1>1, <1>4, <1>5, <1>7, <1>8, <1>9 DEF Holds
<1> QED
  BY <1>10 DEF r

\* What happens to one transport t: it is y now, the groups are members, and
\* the users of no other change.
LEMMA ChangeHolds ==
  ASSUME NEW s, NEW d, NEW ft, NEW ls, Holds(s, d, ft, ls),
         NEW t \in DOMAIN s.of, NEW y \in Socket, NEW l, Lists(l, DOMAIN s.of),
         NEW d2, NEW ft2, NEW ls2, UsersTyped(d2, ft2, ls2), Pointed(DOMAIN s.of, d2, ft2),
         NEW members, Joined(members, d2),
         Counted(y, Uses(d2, ft2, t)), y.groupCount = Cardinality(GroupsAt(d2, t)),
         \A u \in DOMAIN s.of \ {t} :
           /\ FlowsAt(ft2, u) = FlowsAt(ft, u)
           /\ Cardinality(GroupsAt(d2, u)) = Cardinality(GroupsAt(d, u)),
         \A p \in Port : ls2[p] > 0 <=> HeardOn([s.of EXCEPT ![t] = y], p)
  PROVE  Holds([list |-> l, of |-> [s.of EXCEPT ![t] = y], members |-> members], d2, ft2, ls2)
<1> DEFINE of == [s.of EXCEPT ![t] = y]
           r == [list |-> l, of |-> of, members |-> members]
<1>1. s.of \in [DOMAIN s.of -> Socket]
  BY DEF Holds, SocketsTyped
<1>2. DOMAIN of = DOMAIN s.of /\ of \in [DOMAIN s.of -> Socket] /\ of[t] = y
      /\ \A u \in DOMAIN s.of : u # t => of[u] = s.of[u]
  BY <1>1
<1>3. \A p \in Port : ls2[p] > 0 <=> HeardOn(of, p)
  OBVIOUS
<1> HIDE DEF of
<1>4. r.list = l /\ r.of = of /\ r.members = members /\ r = [list |-> r.list, of |-> r.of, members |-> r.members]
  OBVIOUS
<1> HIDE DEF r
<1>5. SocketsTyped(r)
  BY <1>2, <1>4 DEF SocketsTyped
<1>6. ASSUME NEW u \in DOMAIN of
      PROVE  Counted(of[u], Uses(d2, ft2, u)) /\ of[u].groupCount = Cardinality(GroupsAt(d2, u))
  <2>1. CASE u = t
    BY <1>2, <2>1
  <2>2. CASE u # t
    <3>1. Uses(d2, ft2, u) = Uses(d, ft, u)
      BY <1>2, <2>2 DEF Uses
    <3> QED
      BY <1>2, <2>2, <3>1 DEF Holds
  <2> QED
    BY <2>1, <2>2
<1>7. Holds(r, d2, ft2, ls2)
  BY <1>2, <1>3, <1>4, <1>5, <1>6 DEF Holds
<1> QED
  BY <1>7 DEF r, of
\* Who hears a port is told by the port and the input of the sockets.
LEMMA SameHeard ==
  ASSUME NEW s, SocketsTyped(s), NEW t \in DOMAIN s.of, NEW y \in Socket,
         y.input = s.of[t].input, \A p \in Port : y.srcPort = p <=> s.of[t].srcPort = p
  PROVE  \A p \in Port : HeardOn([s.of EXCEPT ![t] = y], p) <=> HeardOn(s.of, p)
<1> DEFINE of == [s.of EXCEPT ![t] = y]
<1>1. /\ DOMAIN of = DOMAIN s.of /\ of[t] = y
      /\ \A u \in DOMAIN s.of : u # t => of[u] = s.of[u]
  BY DEF SocketsTyped
<1> HIDE DEF of
<1>2. \A p \in Port : HeardOn(of, p) <=> HeardOn(s.of, p)
  BY <1>1 DEF HeardOn
<1> QED
  BY <1>2 DEF of

SamePort(x, y) == \A p \in Port : y.srcPort = p <=> x.srcPort = p

LEMMA OpenedIs ==
  ASSUME Proper, NEW x \in Socket, NEW t \in Nat, NEW bind \in BOOLEAN, NEW y, y = Opened(x, t, bind)
  PROVE  /\ y \in Socket
         /\ y.references = x.references + 1 /\ y.open
         /\ y.bound = (x.bound \/ bind)
         /\ y.input = x.input /\ y.groupCount = x.groupCount /\ y.interface = x.interface
         /\ SamePort(x, y)
         /\ (~bind \/ x.srcPort # NoPort) => y.srcPort = x.srcPort
<1>1. /\ y = [srcPort |-> y.srcPort, interface |-> x.interface, references |-> x.references + 1,
              groupCount |-> x.groupCount, open |-> TRUE, bound |-> x.bound \/ bind, input |-> x.input]
      /\ y.srcPort = IF x.srcPort = NoPort /\ bind THEN Ephemeral(t) ELSE x.srcPort
  BY DEF Opened, Socket
<1>2. Ephemeral(t) \in Int /\ \A p \in Port : p # Ephemeral(t) /\ p # NoPort
  BY ReceptionAssumption DEF Ephemeral, Proper, NoPort
<1>3. y.srcPort \in Int
  BY <1>1, <1>2 DEF Socket
<1>4. x.references + 1 \in Nat /\ x.groupCount \in Nat /\ x.interface \in Interfaces
      /\ (x.bound \/ bind) \in BOOLEAN /\ x.input \in BOOLEAN
  BY DEF Socket
<1>5. y \in Socket
  <2> DEFINE p == y.srcPort
             n == x.references + 1
             b == x.bound \/ bind
             i == x.interface
             c == x.groupCount
             h == x.input
  <2>1. /\ y = [srcPort |-> p, interface |-> i, references |-> n, groupCount |-> c,
                open |-> TRUE, bound |-> b, input |-> h]
        /\ p \in Int /\ i \in Interfaces /\ n \in Nat /\ c \in Nat /\ b \in BOOLEAN /\ h \in BOOLEAN
    BY <1>1, <1>3, <1>4
  <2> HIDE DEF p, n, b, i, c, h
  <2> QED
    BY <2>1 DEF Socket
<1>6. SamePort(x, y)
  BY <1>1, <1>2 DEF SamePort
<1>7. /\ y.references = x.references + 1 /\ y.open /\ y.bound = (x.bound \/ bind)
      /\ y.input = x.input /\ y.groupCount = x.groupCount /\ y.interface = x.interface
  BY <1>1
<1>8. (~bind \/ x.srcPort # NoPort) => y.srcPort = x.srcPort
  BY <1>1
<1> QED
  BY <1>5, <1>6, <1>7, <1>8

LEMMA ReleasedIs ==
  ASSUME NEW x \in Socket, NEW y, y = Released(x)
  PROVE  /\ y \in Socket
         /\ y.groupCount = x.groupCount /\ y.srcPort = x.srcPort /\ y.interface = x.interface
         /\ x.references = 0 => y = x
         /\ x.references = 1 => y.references = 0 /\ ~y.open /\ ~y.bound /\ ~y.input
         /\ x.references > 1 =>
              /\ y.references = x.references - 1
              /\ y.open = x.open /\ y.bound = x.bound /\ y.input = x.input
<1>1. x.references \in Nat
  BY DEF Socket
<1>2. CASE x.references = 0
  BY <1>2 DEF Released
<1>3. CASE x.references = 1
  <2>1. y = [x EXCEPT !.references = x.references - 1, !.open = FALSE, !.bound = FALSE, !.input = FALSE]
    BY <1>3 DEF Released, Closes
  <2>2. y = [x EXCEPT !.references = 0, !.open = FALSE, !.bound = FALSE, !.input = FALSE]
    BY <1>3, <2>1
  <2>3. y = [srcPort |-> x.srcPort, interface |-> x.interface, references |-> 0,
             groupCount |-> x.groupCount, open |-> FALSE, bound |-> FALSE, input |-> FALSE]
    BY <2>2 DEF Socket
  <2>5. y \in Socket
    BY <2>3 DEF Socket
  <2>4. /\ y.groupCount = x.groupCount /\ y.srcPort = x.srcPort /\ y.interface = x.interface
        /\ y.references = 0 /\ ~y.open /\ ~y.bound /\ ~y.input
    BY <2>2 DEF Socket
  <2> QED
    BY <1>3, <2>5, <2>4
<1>4. CASE x.references > 1
  <2>1. y = [x EXCEPT !.references = x.references - 1] /\ x.references - 1 \in Nat
    BY <1>1, <1>4 DEF Released, Closes
  <2> DEFINE n == x.references - 1
  <2> HIDE DEF n
  <2>2. y = [x EXCEPT !.references = n] /\ n \in Nat
    BY <2>1 DEF n
  <2>3. y \in Socket /\ y.references = n /\ y.groupCount = x.groupCount /\ y.srcPort = x.srcPort
        /\ y.interface = x.interface /\ y.open = x.open /\ y.bound = x.bound /\ y.input = x.input
    BY <2>2 DEF Socket
  <2> QED
    BY <1>4, <2>3 DEF n
<1> QED
  BY <1>1, <1>2, <1>3, <1>4

\* What the sockets got are when one is looked for: those there were, or one more.
LEMMA GetHolds ==
  ASSUME Proper, NEW s, NEW d, NEW ft, NEW ls, Holds(s, d, ft, ls),
         NEW port \in Port \cup {NoPort}, NEW T, T \subseteq DOMAIN s.of,
         NEW g, g = GetMgenTransport(s, port, T)
  PROVE  /\ Holds(g.sockets, d, ft, ls)
         /\ g.transport \in DOMAIN g.sockets.of /\ g.transport # NoTransport
         /\ g.sockets.members = s.members
         /\ T = {} => g.sockets.of[g.transport] = NewTransport(port)
         /\ T # {} => g.sockets = s /\ g.transport \in T
<1>1. CASE T = {}
  <2>1. g = [sockets |-> Prepended(s, port), transport |-> Head(Prepended(s, port).list)]
    BY <1>1 DEF GetMgenTransport
  <2>2. g.sockets = Prepended(s, port) /\ g.transport = Head(g.sockets.list)
    BY <2>1
  <2> QED
    BY <1>1, <2>2, PrependedHolds
<1>2. CASE T # {}
  <2>1. g.sockets = s /\ g.transport = First(s, T)
    BY <1>2 DEF GetMgenTransport
  <2>2. SocketsTyped(s)
    BY DEF Holds
  <2> QED
    BY <1>2, <2>1, <2>2, FirstIs
<1> QED
  BY <1>1, <1>2

\* Setting the interface of a socket.
LEMMA InterfaceHolds ==
  ASSUME NEW s, NEW d, NEW ft, NEW ls, Holds(s, d, ft, ls), NEW t \in DOMAIN s.of,
         NEW interface \in Interfaces, NEW r, r = SetInterface(s, t, interface)
  PROVE  /\ Holds(r, d, ft, ls)
         /\ DOMAIN r.of = DOMAIN s.of /\ r.members = s.members
<1> DEFINE y == [s.of[t] EXCEPT !.interface = interface]
<1>1. /\ s = [list |-> s.list, of |-> s.of, members |-> s.members]
      /\ s.of \in [DOMAIN s.of -> Socket]
      /\ Counted(s.of[t], Uses(d, ft, t))
  BY DEF Holds, SocketsTyped
<1>2. r = [s EXCEPT !.of[t] = y]
  BY <1>1 DEF SetInterface
<1>3. /\ y \in Socket /\ y.references = s.of[t].references /\ y.input = s.of[t].input
      /\ y.groupCount = s.of[t].groupCount /\ y.open = s.of[t].open
      /\ y.srcPort = s.of[t].srcPort /\ y.bound = s.of[t].bound
  BY <1>1 DEF Socket
<1> HIDE DEF y
<1>4. (y.open /\ y.srcPort # NoPort) => y.bound
  BY <1>1, <1>3 DEF Counted
<1>5. Holds(r, d, ft, ls)
  BY <1>2, <1>3, <1>4, AlikeHolds
<1>6. DOMAIN r.of = DOMAIN s.of /\ r.members = s.members
  BY <1>1, <1>2
<1> QED
  BY <1>5, <1>6

LEMMA FoundHolds ==
  ASSUME NEW s, NEW d, NEW ft, NEW ls, Holds(s, d, ft, ls),
         NEW interface \in Interfaces, NEW port,
         NEW g, g = FindTransportByInterface(s, interface, port)
  PROVE  /\ Holds(g.sockets, d, ft, ls)
         /\ g.transport \in DOMAIN g.sockets.of \cup {NoTransport}
         /\ g.sockets.members = s.members
<1> DEFINE A == {t \in DOMAIN s.of : SameInterface(s, t, interface)}
           F == {t \in DOMAIN s.of : s.of[t].srcPort = port}
           any == First(s, A)
           first == First(s, F)
           set == SetInterface(s, first, interface)
<1>1. SocketsTyped(s)
  BY DEF Holds
<1>2. any \in A \cup {NoTransport} /\ first \in F \cup {NoTransport}
  <2>1. \A T : T = {} => First(s, T) = NoTransport
    BY DEF First
  <2> QED
    BY <1>1, <2>1, FirstIs
<1>3. \/ g.sockets = s /\ g.transport \in {NoTransport, any, first}
      \/ first # NoTransport /\ g.sockets = set /\ g.transport = first
  <2>1. g = IF port = NoPort THEN [sockets |-> s, transport |-> any]
            ELSE IF first = NoTransport THEN [sockets |-> s, transport |-> NoTransport]
            ELSE IF TakesInterface(s, first, interface)
            THEN [sockets |-> set, transport |-> first]
            ELSE [sockets |-> s, transport |-> IF s.of[first].interface = interface THEN first ELSE NoTransport]
    BY DEF FindTransportByInterface
  <2> HIDE DEF any, first, set
  <2> QED
    BY <2>1
<1> HIDE DEF any, first
<1>4. CASE g.sockets = s /\ g.transport \in {NoTransport, any, first}
  BY <1>2, <1>4
<1>5. CASE first # NoTransport /\ g.sockets = set /\ g.transport = first
  <2>1. first \in DOMAIN s.of
    BY <1>2, <1>5
  <2> HIDE DEF set
  <2>2. Holds(set, d, ft, ls) /\ DOMAIN set.of = DOMAIN s.of /\ set.members = s.members
    BY <2>1, InterfaceHolds DEF set
  <2> QED
    BY <1>5, <2>1, <2>2
<1> QED
  BY <1>3, <1>4, <1>5
\* The transport a group joins on; one that JoinGroup may delete has no users.
LEMMA ChosenHolds ==
  ASSUME Proper, NEW s, NEW d, NEW ft, NEW ls, Holds(s, d, ft, ls),
         NEW interface \in Interfaces, NEW port \in Port \cup {NoPort},
         NEW c, c = JoinTransport(s, interface, port)
  PROVE  /\ Holds(c.got.sockets, d, ft, ls)
         /\ c.got.transport \in DOMAIN c.got.sockets.of /\ c.got.transport # NoTransport
         /\ c.got.sockets.members = s.members
         /\ c.new => c.got.sockets.of[c.got.transport].references = 0
<1> DEFINE found == FindTransportByInterface(s, interface, port)
           f == found.sockets
           T == ClosedOnly(f, Matching(f, port, interface))
           g == GetMgenTransport(f, port, T)
<1>1. /\ Holds(f, d, ft, ls) /\ f.members = s.members
      /\ found.transport \in DOMAIN f.of \cup {NoTransport}
  <2> HIDE DEF found
  <2>1. found = FindTransportByInterface(s, interface, port)
    BY DEF found
  <2> QED
    BY <2>1, FoundHolds
<1>2. \/ c = [got |-> found, new |-> FALSE] /\ found.transport # NoTransport
      \/ c = [got |-> g, new |-> TRUE]
  BY DEF JoinTransport
<1>3. T \subseteq DOMAIN f.of /\ \A t \in T : ~f.of[t].open
  BY DEF ClosedOnly, Matching
<1> HIDE DEF found, f, T
<1>4. /\ Holds(g.sockets, d, ft, ls)
      /\ g.transport \in DOMAIN g.sockets.of /\ g.transport # NoTransport
      /\ g.sockets.members = f.members
      /\ T = {} => g.sockets.of[g.transport] = NewTransport(port)
      /\ T # {} => g.sockets = f /\ g.transport \in T
  BY <1>1, <1>3, GetHolds
<1> HIDE DEF g
<1>5. CASE c = [got |-> found, new |-> FALSE] /\ found.transport # NoTransport
  <2>1. c.got.sockets = f /\ c.got.transport = found.transport /\ ~c.new
    BY <1>5 DEF f
  <2> QED
    BY <1>1, <1>5, <2>1
<1>6. CASE c = [got |-> g, new |-> TRUE]
  <2>1. c.got.sockets = g.sockets /\ c.got.transport = g.transport
    BY <1>6
  <2>2. g.sockets.of[g.transport].references = 0
    <3>1. CASE T = {}
      BY <1>4, <3>1 DEF NewTransport
    <3>2. CASE T # {}
      <4>1. g.transport \in DOMAIN f.of /\ ~f.of[g.transport].open
        BY <1>3, <1>4, <3>2
      <4>2. f.of[g.transport].references \in Nat /\ ~(f.of[g.transport].references > 0)
        BY <1>1, <4>1 DEF Holds, SocketsTyped, Counted, Socket
      <4>3. f.of[g.transport].references = 0
        BY <4>2
      <4> QED
        BY <1>4, <3>2, <4>3
    <3> QED
      BY <3>1, <3>2
  <2> QED
    BY <1>1, <1>4, <2>1, <2>2
<1> QED
  BY <1>2, <1>5, <1>6

\* A socket that no entry has has no group of the system's.
LEMMA MembersStay ==
  ASSUME NEW members, NEW d, Joined(members, d), NEW t, t # NoTransport, GroupsAt(d, t) = {}
  PROVE  {m \in members : m[1] # t} = members
<1>1. \A i \in ActiveIn(d) : MemberOf(d[i])[1] # t
  BY DEF ActiveIn, GroupsAt, MemberOf, Member
<1> QED
  BY <1>1 DEF Joined

LEMMA RefusedHolds ==
  ASSUME Proper, NEW s, NEW d, NEW ft, NEW ls, Holds(s, d, ft, ls), NEW t \in DOMAIN s.of, t # NoTransport,
         NEW r, r = Refused(Open(s, t, s.of[t].srcPort # NoPort), t)
  PROVE  /\ Holds(r, d, ft, ls)
         /\ DOMAIN r.of = DOMAIN s.of
         /\ r.of[t].references = s.of[t].references
<1> DEFINE x == s.of[t]
           bind == x.srcPort # NoPort
           o == Opened(x, t, bind)
           y == Released(o)
           opened == Open(s, t, bind)
           members == IF Closes(o) THEN {m \in s.members : m[1] # t} ELSE s.members
<1>1. /\ s = [list |-> s.list, of |-> s.of, members |-> s.members]
      /\ s.of \in [DOMAIN s.of -> Socket] /\ x \in Socket
      /\ Counted(x, Uses(d, ft, t)) /\ Joined(s.members, d) /\ t \in Nat
  BY DEF Holds, SocketsTyped, Lists
<1>2. opened = [list |-> s.list, of |-> [s.of EXCEPT ![t] = o], members |-> s.members]
  <2> HIDE DEF o
  <2>1. opened = [s EXCEPT !.of[t] = o]
    BY DEF Open, o
  <2> HIDE DEF opened
  <2> QED
    BY <1>1, <2>1
<1>3. r = [list |-> s.list, of |-> [s.of EXCEPT ![t] = y], members |-> members]
  <2> HIDE DEF opened, o
  <2>1. r = [opened EXCEPT !.of[t] = Released(opened.of[t]),
                           !.members = IF Closes(opened.of[t]) THEN {m \in opened.members : m[1] # t}
                                       ELSE opened.members]
    BY DEF Refused, Close, opened
  <2>2. opened.of[t] = o /\ opened.members = s.members
    BY <1>1, <1>2
  <2>3. r = [opened EXCEPT !.of[t] = y, !.members = members]
    BY <2>1, <2>2
  <2> HIDE DEF y, members
  <2> QED
    BY <1>1, <1>2, <2>3
<1>4. /\ o \in Socket /\ o.references = x.references + 1 /\ o.open /\ o.bound = (x.bound \/ bind)
      /\ o.input = x.input /\ o.groupCount = x.groupCount /\ o.srcPort = x.srcPort
  <2>1. bind \in BOOLEAN /\ (~bind \/ x.srcPort # NoPort) /\ o = Opened(x, t, bind)
    OBVIOUS
  <2> HIDE DEF o, x, bind
  <2> QED
    BY <1>1, <2>1, OpenedIs
<1>5. /\ y \in Socket /\ y.groupCount = x.groupCount /\ y.srcPort = x.srcPort
      /\ o.references = 1 => (y.references = 0 /\ ~y.open /\ ~y.bound /\ ~y.input)
      /\ o.references > 1 =>
           (y.references = o.references - 1 /\ y.open = o.open /\ y.bound = o.bound /\ y.input = o.input)
  <2> HIDE DEF o
  <2>1. o \in Socket
    BY <1>4
  <2>2. /\ y \in Socket /\ y.groupCount = o.groupCount /\ y.srcPort = o.srcPort
        /\ o.references = 1 => (y.references = 0 /\ ~y.open /\ ~y.bound /\ ~y.input)
        /\ o.references > 1 =>
             (y.references = o.references - 1 /\ y.open = o.open /\ y.bound = o.bound /\ y.input = o.input)
    BY <2>1, ReleasedIs
  <2> QED
    BY <1>4, <2>2
<1> HIDE DEF y, o, x, opened, bind
<1>6. /\ y.references = x.references /\ y.input = x.input /\ y.open = x.open
      /\ (y.open /\ y.srcPort # NoPort) => y.bound
      /\ members = s.members
  <2>1. x.references \in Nat /\ x.input \in BOOLEAN /\ x.open \in BOOLEAN /\ y.open \in BOOLEAN /\ y.input \in BOOLEAN
    BY <1>1, <1>5 DEF Socket
  <2>2. CASE x.references = 0
    <3>1. ~x.open /\ ~x.input /\ GroupsAt(d, t) = {}
      BY <2>2, Unused DEF x
    <3>2. o.references = 1
      BY <1>4, <2>2
    <3>3. members = s.members
      BY <1>1, <3>1, MembersStay
    <3> QED
      BY <1>5, <2>1, <2>2, <3>1, <3>2, <3>3
  <2>3. CASE x.references > 0
    <3>1. x.open
      BY <1>1, <2>3 DEF Counted
    <3>2. o.references > 1 /\ o.references - 1 = x.references /\ o.references # 1
      BY <1>4, <2>1, <2>3
    <3>3. members = s.members
      BY <3>2 DEF Closes
    <3>4. y.srcPort # NoPort => y.bound
      BY <1>4, <1>5, <3>2 DEF bind
    <3> QED
      BY <1>4, <1>5, <2>1, <2>3, <3>1, <3>2, <3>3, <3>4
  <2> QED
    BY <2>1, <2>2, <2>3
<1> HIDE DEF members
<1>7. r = [s EXCEPT !.of[t] = y]
  BY <1>1, <1>3, <1>6
<1>8. DOMAIN r.of = DOMAIN s.of /\ r.of[t] = y
  BY <1>1, <1>3
<1>9. Holds(r, d, ft, ls)
  BY <1>5, <1>6, <1>7, AlikeHolds DEF x
<1> QED
  BY <1>6, <1>8, <1>9 DEF x
-------------------------------------------------------------------------------
(* The entries of groups.                                                  *)

WithTransport(d, i, t) == [d EXCEPT ![i].transport = t]

\* Entry i of d has transport t in d2.
IsSet(d, i, t, d2) ==
  /\ d2 \in Seq(EntryType) /\ Len(d2) = Len(d)
  /\ d2[i].transport = t /\ MemberOf(d2[i]) = Member(t, d[i])
  /\ \A j \in 1..Len(d) : j # i => d2[j] = d[j]

LEMMA SetEntry ==
  ASSUME NEW d \in Seq(EntryType), NEW i \in 1..Len(d), NEW t \in Nat
  PROVE  IsSet(d, i, t, [d EXCEPT ![i].transport = t])
<1> DEFINE e == [d[i] EXCEPT !.transport = t]
           d2 == [d EXCEPT ![i] = e]
<1>1. d[i] \in EntryType
  BY ElementOfSeq
<1>2. e \in EntryType /\ e.transport = t /\ e.group = d[i].group /\ e.interface = d[i].interface
  BY <1>1 DEF EntryType
<1>3. d2 = [d EXCEPT ![i].transport = t]
  OBVIOUS
<1> HIDE DEF e
<1>4. /\ d2 \in Seq(EntryType) /\ Len(d2) = Len(d)
      /\ \A j \in 1..Len(d) : d2[j] = IF j = i THEN e ELSE d[j]
  BY <1>2, ExceptSeq
<1> HIDE DEF d2
<1>5. IsSet(d, i, t, d2)
  BY <1>2, <1>4 DEF IsSet, MemberOf, Member
<1> QED
  BY <1>3, <1>5

\* Without a transport an entry is as it was.
LEMMA SetToNone ==
  ASSUME NEW d \in Seq(EntryType), NEW i \in 1..Len(d), d[i].transport = NoTransport
  PROVE  [d EXCEPT ![i].transport = NoTransport] = d
<1>1. d[i] \in EntryType /\ d \in [1..Len(d) -> EntryType]
  BY ElementOfSeq, LenProperties
<1>2. [d[i] EXCEPT !.transport = NoTransport] = d[i]
  BY <1>1 DEF EntryType
<1> DEFINE e == [d[i] EXCEPT !.transport = NoTransport]
<1>3. [d EXCEPT ![i].transport = NoTransport] = [d EXCEPT ![i] = e]
  OBVIOUS
<1> HIDE DEF e
<1>4. [d EXCEPT ![i] = e] = d
  BY <1>1, <1>2 DEF e
<1> QED
  BY <1>3, <1>4

GroupAdded(d, i, t, d2) ==
  /\ i \notin GroupsAt(d, t) /\ GroupsAt(d2, t) = GroupsAt(d, t) \cup {i}
  /\ \A u : u # t /\ u # NoTransport => GroupsAt(d2, u) = GroupsAt(d, u)

\* A group of the system's more, and an entry for it.
LEMMA SetJoined ==
  ASSUME NEW d \in Seq(EntryType), NEW i \in 1..Len(d), d[i].transport = NoTransport,
         NEW t, t # NoTransport, NEW d2, IsSet(d, i, t, d2),
         NEW members, Joined(members, d), Member(t, d[i]) \notin members
  PROVE  /\ Joined(members \cup {Member(t, d[i])}, d2)
         /\ GroupAdded(d, i, t, d2)
<1> DEFINE m == Member(t, d[i])
<1>1. /\ Len(d2) = Len(d) /\ d2[i].transport = t /\ MemberOf(d2[i]) = m
      /\ \A j \in 1..Len(d) : j # i => d2[j] = d[j]
  BY DEF IsSet
<1>2. ActiveIn(d2) = ActiveIn(d) \cup {i} /\ i \notin ActiveIn(d)
  BY <1>1 DEF ActiveIn
<1>3. \A j \in ActiveIn(d) : j # i /\ d2[j] = d[j] /\ MemberOf(d[j]) \in members
  BY <1>1, <1>2 DEF ActiveIn, Joined
<1> HIDE DEF m
<1>4. m \notin members /\ members = {MemberOf(d[j]) : j \in ActiveIn(d)}
      /\ \A j, k \in ActiveIn(d) : MemberOf(d[j]) = MemberOf(d[k]) => j = k
  BY DEF m, Joined
<1>5. members \cup {m} = {MemberOf(d2[j]) : j \in ActiveIn(d2)}
  <2>1. \A j \in ActiveIn(d2) : MemberOf(d2[j]) \in members \cup {m}
    BY <1>1, <1>2, <1>3
  <2>2. \A x \in members \cup {m} : \E j \in ActiveIn(d2) : MemberOf(d2[j]) = x
    <3>1. \A x \in members : \E j \in ActiveIn(d) : MemberOf(d[j]) = x
      BY <1>4
    <3>2. i \in ActiveIn(d2) /\ \A j \in ActiveIn(d) : j \in ActiveIn(d2)
      BY <1>2
    <3> QED
      BY <1>1, <1>3, <3>1, <3>2
  <2> QED
    BY <2>1, <2>2
<1>6. \A j, k \in ActiveIn(d2) : MemberOf(d2[j]) = MemberOf(d2[k]) => j = k
  BY <1>1, <1>2, <1>3, <1>4
<1>7. Joined(members \cup {m}, d2)
  BY <1>5, <1>6 DEF Joined
<1>8. i \notin GroupsAt(d, t) /\ GroupsAt(d2, t) = GroupsAt(d, t) \cup {i}
  BY <1>1 DEF GroupsAt
<1>9. \A u : u # t /\ u # NoTransport => GroupsAt(d2, u) = GroupsAt(d, u)
  BY <1>1 DEF GroupsAt
<1> QED
  BY <1>7, <1>8, <1>9 DEF m, GroupAdded

\* A group that is not a member joins on transport t: the reference is counted.
LEMMA JoinedHolds ==
  ASSUME Proper, NEW s, NEW d, NEW ft, NEW ls, Holds(s, d, ft, ls), NEW t \in DOMAIN s.of, t # NoTransport,
         NEW i \in 1..Len(d), d[i].transport = NoTransport,
         Member(t, d[i]) \notin s.members
  PROVE  Holds(Placed(WithGroup(Open(s, t, s.of[t].srcPort # NoPort), t, Member(t, d[i])), t),
               WithTransport(d, i, t), ft, ls)
<1> DEFINE x == s.of[t]
           bind == x.srcPort # NoPort
           m == Member(t, d[i])
           opened == Open(s, t, bind)
           joined == WithGroup(opened, t, m)
           o == Opened(x, t, bind)
           y == [o EXCEPT !.groupCount = x.groupCount + 1]
           d2 == WithTransport(d, i, t)
           members == s.members \cup {m}
           r == Placed(joined, t)
<1>1. /\ s = [list |-> s.list, of |-> s.of, members |-> s.members]
      /\ s.of \in [DOMAIN s.of -> Socket] /\ x \in Socket /\ Lists(s.list, DOMAIN s.of)
      /\ Counted(x, Uses(d, ft, t)) /\ Joined(s.members, d) /\ t \in Nat
      /\ x.groupCount = Cardinality(GroupsAt(d, t))
      /\ UsersTyped(d, ft, ls) /\ d \in Seq(EntryType) /\ Pointed(DOMAIN s.of, d, ft) /\ SocketsTyped(s)
      /\ \A p \in Port : ls[p] > 0 <=> HeardOn(s.of, p)
  BY DEF Holds, SocketsTyped, Lists, UsersTyped
<1>2. /\ o \in Socket /\ o.references = x.references + 1 /\ o.open /\ o.bound = (x.bound \/ bind)
      /\ o.input = x.input /\ o.groupCount = x.groupCount /\ o.srcPort = x.srcPort
  <2>1. bind \in BOOLEAN /\ (~bind \/ x.srcPort # NoPort) /\ o = Opened(x, t, bind)
    OBVIOUS
  <2> HIDE DEF o, x, bind
  <2> QED
    BY <1>1, <2>1, OpenedIs
<1>3. opened = [list |-> s.list, of |-> [s.of EXCEPT ![t] = o], members |-> s.members]
  <2> HIDE DEF o
  <2>1. opened = [s EXCEPT !.of[t] = o]
    BY DEF Open, o
  <2> HIDE DEF opened
  <2> QED
    BY <1>1, <2>1
<1>4. joined = [list |-> s.list, of |-> [s.of EXCEPT ![t] = y], members |-> members]
  <2> HIDE DEF o, opened
  <2>1. opened.of[t] = o /\ opened.members = s.members /\ o.groupCount = x.groupCount
    BY <1>1, <1>2, <1>3
  <2> DEFINE w == [opened.of EXCEPT ![t] = y]
  <2>2. joined = [opened EXCEPT !.members = members, !.of = w]
    BY <2>1 DEF WithGroup
  <2>3. w = [s.of EXCEPT ![t] = y]
    <3>1. s.of \in [DOMAIN s.of -> Socket] /\ opened.of = [s.of EXCEPT ![t] = o]
      BY <1>1, <1>3
    <3> HIDE DEF y, x
    <3> QED
      BY <3>1
  <2> HIDE DEF y, members, x, w, joined
  <2>4. joined = [list |-> s.list, of |-> w, members |-> members]
    BY <1>3, <2>2
  <2> QED
    BY <2>3, <2>4
<1>5. /\ y \in Socket /\ y.references = x.references + 1 /\ y.open /\ y.bound = o.bound
      /\ y.input = x.input /\ y.groupCount = x.groupCount + 1 /\ y.srcPort = x.srcPort
  <2> HIDE DEF o
  <2>1. x.groupCount + 1 \in Nat
    BY <1>1 DEF Socket
  <2> QED
    BY <1>2, <2>1 DEF Socket
<1> HIDE DEF y, o, members, opened, joined
<1>6. r = [list |-> r.list, of |-> [s.of EXCEPT ![t] = y], members |-> members]
      /\ Lists(r.list, DOMAIN s.of)
  <2>1. joined.list = s.list
    BY <1>4
  <2>2. CASE Full(joined, t)
    <3> DEFINE l == Append(RemoveFirst(s.list, t), t)
    <3>1. r = [joined EXCEPT !.list = l]
      BY <2>1, <2>2 DEF Placed
    <3>2. Lists(l, DOMAIN s.of)
      <4>1. Lists(RemoveFirst(s.list, t), DOMAIN s.of \ {t})
        BY <1>1, RemoveLists
      <4>2. Lists(l, (DOMAIN s.of \ {t}) \cup {t})
        <5>1. t \in Nat \ {0} /\ t \notin DOMAIN s.of \ {t}
          BY <1>1 DEF NoTransport
        <5> QED
          BY <4>1, <5>1, AppendLists
      <4>3. (DOMAIN s.of \ {t}) \cup {t} = DOMAIN s.of
        OBVIOUS
      <4> QED
        BY <4>2, <4>3
    <3> HIDE DEF l, r
    <3> QED
      BY <1>4, <3>1, <3>2
  <2>3. CASE ~Full(joined, t)
    <3>1. r = joined
      BY <2>3 DEF Placed
    <3> HIDE DEF r
    <3> QED
      BY <1>1, <1>4, <3>1
  <2> QED
    BY <2>2, <2>3
<1> HIDE DEF r
<1>7. IsSet(d, i, t, d2)
  BY <1>1, SetEntry DEF WithTransport
<1> HIDE DEF d2
<1>8. /\ Joined(members, d2)
      /\ i \notin GroupsAt(d, t) /\ GroupsAt(d2, t) = GroupsAt(d, t) \cup {i}
      /\ \A u : u # t /\ u # NoTransport => GroupsAt(d2, u) = GroupsAt(d, u)
  <2>1. d \in Seq(EntryType) /\ Joined(s.members, d)
    BY <1>1
  <2>2. Joined(members, d2) /\ GroupAdded(d, i, t, d2)
    BY <1>7, <2>1, SetJoined DEF members
  <2> QED
    BY <2>2 DEF GroupAdded
<1>9. Cardinality(GroupsAt(d2, t)) = Cardinality(GroupsAt(d, t)) + 1
      /\ Cardinality(GroupsAt(d, t)) \in Nat /\ Cardinality(FlowsAt(ft, t)) \in Nat
  BY <1>1, <1>8, Finite, FS_AddElement
<1>10. Uses(d2, ft, t) = Uses(d, ft, t) + 1 /\ Uses(d, ft, t) \in Nat
  BY <1>9 DEF Uses
<1>11. Counted(y, Uses(d2, ft, t)) /\ y.groupCount = Cardinality(GroupsAt(d2, t))
  <2>1. x.references \in Nat
    BY <1>1 DEF Socket
  <2>2. y.references = Uses(d2, ft, t) + (IF y.input THEN 1 ELSE 0)
    BY <1>1, <1>5, <1>10 DEF Counted
  <2>3. y.references > 0
    BY <1>5, <2>1
  <2>4. (y.open /\ y.srcPort # NoPort) => y.bound
    BY <1>2, <1>5 DEF bind
  <2> QED
    BY <1>1, <1>5, <1>9, <2>2, <2>3, <2>4 DEF Counted
<1>12. \A p \in Port : ls[p] > 0 <=> HeardOn([s.of EXCEPT ![t] = y], p)
  BY <1>1, <1>5, SameHeard DEF x
<1>13. UsersTyped(d2, ft, ls) /\ Pointed(DOMAIN s.of, d2, ft)
  <2>1. UsersTyped(d2, ft, ls)
    BY <1>1, <1>7 DEF UsersTyped, IsSet
  <2>2. \A j \in 1..Len(d2) : d2[j].transport \in DOMAIN s.of \cup {NoTransport}
    BY <1>1, <1>7 DEF IsSet, Pointed
  <2> QED
    BY <1>1, <2>1, <2>2 DEF Pointed
<1>14. \A u \in DOMAIN s.of \ {t} :
         /\ FlowsAt(ft, u) = FlowsAt(ft, u)
         /\ Cardinality(GroupsAt(d2, u)) = Cardinality(GroupsAt(d, u))
  <2>1. NoTransport \notin DOMAIN s.of
    BY <1>1 DEF Lists, NoTransport
  <2> QED
    BY <1>8, <2>1
<1> DEFINE q == [list |-> r.list, of |-> [s.of EXCEPT ![t] = y], members |-> members]
<1>15. Holds(q, d2, ft, ls)
  BY <1>5, <1>6, <1>8, <1>11, <1>12, <1>13, <1>14, ChangeHolds
<1>16. r = q
  BY <1>6
<1> HIDE DEF q
<1> QED
  BY <1>15, <1>16 DEF r, d2, joined, opened, x, bind
\* JoinGroup, whether the system lets the group join or not.
LEMMA JoinKeeps ==
  ASSUME Proper, NEW s, NEW d, NEW ft, NEW ls, Holds(s, d, ft, ls),
         NEW i \in 1..Len(d), d[i].transport = NoTransport,
         NEW e \in EntryType, e.group = d[i].group, e.interface = d[i].interface,
         NEW joins \in BOOLEAN
  PROVE  LET r == JoinGroup(s, e, TRUE, joins)
         IN Holds(r.sockets, WithTransport(d, i, r.transport), ft, ls)
<1> DEFINE r == JoinGroup(s, e, TRUE, joins)
           c == JoinTransport(s, e.interface, e.port)
           t == c.got.transport
           had == c.got.sockets
           opened == Open(had, t, had.of[t].srcPort # NoPort)
           refused == Refused(opened, t)
           left == IF c.new THEN Deleted(refused, t) ELSE refused
           placed == Placed(WithGroup(opened, t, Member(t, e)), t)
<1> SUFFICES Holds(r.sockets, WithTransport(d, i, r.transport), ft, ls)
  OBVIOUS
<1>1. e.interface \in Interfaces /\ e.port \in Port \cup {NoPort}
  BY DEF EntryType
<1>2. /\ Holds(had, d, ft, ls)
      /\ t \in DOMAIN had.of /\ t # NoTransport
      /\ had.members = s.members
      /\ c.new => had.of[t].references = 0
  <2>1. c = JoinTransport(s, e.interface, e.port)
    OBVIOUS
  <2> HIDE DEF c
  <2> QED
    BY <1>1, <2>1, ChosenHolds
<1>3. r = IF ~joins \/ Member(t, e) \in s.members THEN [sockets |-> left, transport |-> NoTransport]
          ELSE [sockets |-> placed, transport |-> t]
  BY DEF JoinGroup
<1>4. Member(t, e) = Member(t, d[i])
  BY DEF Member
<1> HIDE DEF c, t, had, r
<1>5. CASE ~joins \/ Member(t, e) \in s.members
  <2>1. r.sockets = left /\ r.transport = NoTransport
    <3> HIDE DEF left, placed
    <3> QED
      BY <1>3, <1>5
  <2>2. /\ Holds(refused, d, ft, ls) /\ DOMAIN refused.of = DOMAIN had.of
        /\ refused.of[t].references = had.of[t].references
    BY <1>2, RefusedHolds
  <2> HIDE DEF refused
  <2>3. Holds(left, d, ft, ls)
    BY <1>2, <2>2, DeletedHolds
  <2>4. WithTransport(d, i, NoTransport) = d
    BY SetToNone DEF Holds, UsersTyped, WithTransport
  <2> HIDE DEF left
  <2> QED
    BY <2>1, <2>3, <2>4
<1>6. CASE ~(~joins \/ Member(t, e) \in s.members)
  <2>1. r.sockets = placed /\ r.transport = t
    <3> HIDE DEF left, placed
    <3> QED
      BY <1>3, <1>6
  <2>2. Member(t, d[i]) \notin had.members
    BY <1>2, <1>4, <1>6
  <2>3. placed = Placed(WithGroup(opened, t, Member(t, d[i])), t)
    BY <1>4
  <2>4. Holds(placed, WithTransport(d, i, t), ft, ls)
    <3>1. Holds(Placed(WithGroup(opened, t, Member(t, d[i])), t), WithTransport(d, i, t), ft, ls)
      BY <1>2, <2>2, JoinedHolds
    <3> HIDE DEF placed, opened
    <3> QED
      BY <2>3, <3>1
  <2> HIDE DEF placed
  <2> QED
    BY <2>1, <2>4
<1> QED
  BY <1>5, <1>6
-------------------------------------------------------------------------------
(* Users that come and go.                                                 *)

LEMMA FlowOnHolds ==
  ASSUME Proper, NEW s, NEW d, NEW ft, NEW ls, Holds(s, d, ft, ls),
         NEW f \in Flow, ft[f] = NoTransport, NEW t \in DOMAIN s.of, t # NoTransport
  PROVE  Holds(Open(s, t, TRUE), d, [ft EXCEPT ![f] = t], ls)
<1> DEFINE x == s.of[t]
           y == Opened(x, t, TRUE)
           ft2 == [ft EXCEPT ![f] = t]
           r == Open(s, t, TRUE)
<1>1. /\ s = [list |-> s.list, of |-> s.of, members |-> s.members]
      /\ s.of \in [DOMAIN s.of -> Socket] /\ x \in Socket /\ Lists(s.list, DOMAIN s.of) /\ t \in Nat
      /\ NoTransport \notin DOMAIN s.of
  BY DEF Holds, SocketsTyped, Lists, NoTransport
<1>2. /\ Counted(x, Uses(d, ft, t)) /\ Joined(s.members, d)
      /\ x.groupCount = Cardinality(GroupsAt(d, t))
      /\ UsersTyped(d, ft, ls) /\ Pointed(DOMAIN s.of, d, ft) /\ SocketsTyped(s)
      /\ \A p \in Port : ls[p] > 0 <=> HeardOn(s.of, p)
  BY DEF Holds
<1>3. /\ y \in Socket /\ y.references = x.references + 1 /\ y.open /\ y.bound
      /\ y.input = x.input /\ y.groupCount = x.groupCount
      /\ SamePort(x, y)
  <2> DEFINE bind == TRUE
  <2>1. y = Opened(x, t, bind) /\ bind \in BOOLEAN
    OBVIOUS
  <2> HIDE DEF y, x, bind
  <2>2. /\ y \in Socket /\ y.references = x.references + 1 /\ y.open /\ y.bound = (x.bound \/ bind)
        /\ y.input = x.input /\ y.groupCount = x.groupCount
        /\ SamePort(x, y)
    BY <1>1, <2>1, OpenedIs
  <2> QED
    BY <2>2 DEF bind
<1>4. r = [list |-> s.list, of |-> [s.of EXCEPT ![t] = y], members |-> s.members]
  <2> HIDE DEF y
  <2>1. r = [s EXCEPT !.of[t] = y]
    BY DEF Open, y
  <2> HIDE DEF r
  <2> QED
    BY <1>1, <2>1
<1>5. /\ ft2 \in [Flow -> Nat] /\ ft2[f] = t /\ \A g \in Flow : g # f => ft2[g] = ft[g]
  BY <1>1, <1>2 DEF UsersTyped
<1> HIDE DEF y, x, r, ft2
<1>6. /\ f \notin FlowsAt(ft, t) /\ FlowsAt(ft2, t) = FlowsAt(ft, t) \cup {f}
      /\ \A u \in DOMAIN s.of \ {t} : FlowsAt(ft2, u) = FlowsAt(ft, u)
  BY <1>1, <1>5 DEF FlowsAt
<1>7. Uses(d, ft2, t) = Uses(d, ft, t) + 1 /\ Uses(d, ft, t) \in Nat
  <2>1. /\ IsFiniteSet(FlowsAt(ft, t)) /\ Cardinality(FlowsAt(ft, t)) \in Nat
        /\ Cardinality(GroupsAt(d, t)) \in Nat
    BY <1>2, Finite
  <2>2. Cardinality(FlowsAt(ft2, t)) = Cardinality(FlowsAt(ft, t)) + 1
    BY <1>6, <2>1, FS_AddElement
  <2> QED
    BY <2>1, <2>2 DEF Uses
<1>8. Counted(y, Uses(d, ft2, t))
  <2>1. x.references \in Nat
    BY <1>1 DEF Socket
  <2>2. y.references > 0
    BY <1>3, <2>1
  <2> QED
    BY <1>2, <1>3, <1>7, <2>2 DEF Counted
<1>9. \A p \in Port : ls[p] > 0 <=> HeardOn([s.of EXCEPT ![t] = y], p)
  BY <1>2, <1>3, SameHeard DEF x, SamePort
<1>10. UsersTyped(d, ft2, ls) /\ Pointed(DOMAIN s.of, d, ft2)
  BY <1>2, <1>5 DEF UsersTyped, Pointed
<1>11. \A u \in DOMAIN s.of \ {t} :
         /\ FlowsAt(ft2, u) = FlowsAt(ft, u)
         /\ Cardinality(GroupsAt(d, u)) = Cardinality(GroupsAt(d, u))
  BY <1>6
<1>12. Holds([list |-> s.list, of |-> [s.of EXCEPT ![t] = y], members |-> s.members], d, ft2, ls)
  BY <1>1, <1>2, <1>3, <1>8, <1>9, <1>10, <1>11, ChangeHolds
<1> QED
  BY <1>4, <1>12 DEF r, ft2

\* A user less: the socket is closed when there is none.
LEMMA FewerUsers ==
  ASSUME NEW x \in Socket, NEW n \in Nat, Counted(x, n + 1)
  PROVE  /\ Released(x) \in Socket /\ Counted(Released(x), n)
         /\ Released(x).input = x.input /\ Released(x).srcPort = x.srcPort
         /\ Released(x).groupCount = x.groupCount
         /\ Closes(x) => n = 0
<1> DEFINE y == Released(x)
<1>1. x.references \in Nat /\ x.input \in BOOLEAN /\ x.references = (n + 1) + (IF x.input THEN 1 ELSE 0) /\ x.open
  <2>1. x.references \in Nat /\ x.input \in BOOLEAN
    BY DEF Socket
  <2>2. x.references = (n + 1) + (IF x.input THEN 1 ELSE 0) /\ (x.open <=> x.references > 0)
    BY DEF Counted
  <2>3. x.references > 0
    BY <2>1, <2>2
  <2> QED
    BY <2>1, <2>2, <2>3
<1>2. y \in Socket /\ y.srcPort = x.srcPort /\ y.groupCount = x.groupCount
  BY ReleasedIs
<1>3. CASE x.references = 1
  <2>1. n = 0 /\ ~x.input
    BY <1>1, <1>3
  <2>2. y.references = 0 /\ ~y.open /\ ~y.bound /\ ~y.input
    BY <1>3, ReleasedIs
  <2>3. y.input = x.input
    BY <1>2, <2>1, <2>2, <1>1 DEF Socket
  <2> HIDE DEF y
  <2>4. Counted(y, n)
    BY <2>1, <2>2 DEF Counted
  <2> QED
    BY <1>2, <2>1, <2>3, <2>4 DEF y
<1>4. CASE x.references # 1
  <2>1. x.references > 1
    BY <1>1, <1>4
  <2>2. y.references = x.references - 1 /\ y.open = x.open /\ y.bound = x.bound /\ y.input = x.input
    BY <2>1, ReleasedIs
  <2>3. ~Closes(x)
    BY <1>4 DEF Closes
  <2> HIDE DEF y
  <2>4. y.references = n + (IF y.input THEN 1 ELSE 0) /\ y.references > 0
    BY <1>1, <2>1, <2>2
  <2>5. (y.open /\ y.srcPort # NoPort) => y.bound
    BY <1>2, <2>2 DEF Counted
  <2>6. Counted(y, n)
    BY <1>1, <2>2, <2>4, <2>5 DEF Counted
  <2> QED
    BY <1>2, <2>2, <2>3, <2>6 DEF y
<1> QED
  BY <1>3, <1>4

LEMMA FlowOffHolds ==
  ASSUME Proper, NEW s, NEW d, NEW ft, NEW ls, Holds(s, d, ft, ls),
         NEW f \in Flow, NEW t \in DOMAIN s.of, ft[f] = t, t # NoTransport
  PROVE  Holds(Close(s, t), d, [ft EXCEPT ![f] = NoTransport], ls)
<1> DEFINE x == s.of[t]
           y == Released(x)
           ft2 == [ft EXCEPT ![f] = NoTransport]
           members == IF Closes(x) THEN {m \in s.members : m[1] # t} ELSE s.members
           r == Close(s, t)
<1>1. /\ s = [list |-> s.list, of |-> s.of, members |-> s.members]
      /\ s.of \in [DOMAIN s.of -> Socket] /\ x \in Socket /\ Lists(s.list, DOMAIN s.of) /\ t \in Nat
      /\ NoTransport \notin DOMAIN s.of
  BY DEF Holds, SocketsTyped, Lists, NoTransport
<1>2. /\ Counted(x, Uses(d, ft, t)) /\ Joined(s.members, d)
      /\ x.groupCount = Cardinality(GroupsAt(d, t))
      /\ UsersTyped(d, ft, ls) /\ Pointed(DOMAIN s.of, d, ft) /\ SocketsTyped(s)
      /\ \A p \in Port : ls[p] > 0 <=> HeardOn(s.of, p)
  BY DEF Holds
<1>4. r = [list |-> s.list, of |-> [s.of EXCEPT ![t] = y], members |-> members]
  <2>1. r = [s EXCEPT !.of[t] = y, !.members = members]
    BY DEF Close
  <2> HIDE DEF r, y, members
  <2> QED
    BY <1>1, <2>1
<1>5. /\ ft2 \in [Flow -> Nat] /\ ft2[f] = NoTransport /\ \A g \in Flow : g # f => ft2[g] = ft[g]
  BY <1>1, <1>2 DEF UsersTyped, NoTransport
<1> HIDE DEF y, x, r, ft2
<1>6. /\ f \in FlowsAt(ft, t) /\ FlowsAt(ft2, t) = FlowsAt(ft, t) \ {f}
      /\ \A u \in DOMAIN s.of \ {t} : FlowsAt(ft2, u) = FlowsAt(ft, u)
  BY <1>1, <1>5 DEF FlowsAt
<1>7. Uses(d, ft, t) = Uses(d, ft2, t) + 1 /\ Uses(d, ft2, t) \in Nat
  <2>1. UsersTyped(d, ft2, ls)
    BY <1>2, <1>5 DEF UsersTyped
  <2>2. /\ Cardinality(FlowsAt(ft2, t)) = Cardinality(FlowsAt(ft, t)) - 1
        /\ Cardinality(FlowsAt(ft, t)) \in Nat /\ Cardinality(GroupsAt(d, t)) \in Nat
        /\ Cardinality(FlowsAt(ft2, t)) \in Nat
    BY <1>2, <1>6, <2>1, Finite, FS_RemoveElement
  <2> QED
    BY <2>2 DEF Uses
<1>8. /\ y \in Socket /\ Counted(y, Uses(d, ft2, t))
      /\ y.input = x.input /\ y.srcPort = x.srcPort /\ y.groupCount = x.groupCount
      /\ Closes(x) => Uses(d, ft2, t) = 0
  BY <1>1, <1>2, <1>7, FewerUsers DEF y
<1>9. Joined(members, d)
  <2>1. CASE Closes(x)
    <3>1. Cardinality(FlowsAt(ft2, t)) + Cardinality(GroupsAt(d, t)) = 0
      BY <1>8, <2>1 DEF Uses
    <3>2. UsersTyped(d, ft2, ls)
      BY <1>2, <1>5 DEF UsersTyped
    <3>3. Cardinality(GroupsAt(d, t)) = 0 /\ IsFiniteSet(GroupsAt(d, t))
      BY <3>1, <3>2, Finite
    <3>4. GroupsAt(d, t) = {}
      BY <3>3, FS_EmptySet
    <3>5. members = {m \in s.members : m[1] # t}
      BY <2>1
    <3> HIDE DEF members
    <3>6. {m \in s.members : m[1] # t} = s.members
      BY <1>2, <3>4, MembersStay
    <3> QED
      BY <1>2, <3>5, <3>6
  <2>2. CASE ~Closes(x)
    BY <1>2, <2>2
  <2> QED
    BY <2>1, <2>2
<1> HIDE DEF members
<1>10. \A p \in Port : ls[p] > 0 <=> HeardOn([s.of EXCEPT ![t] = y], p)
  BY <1>2, <1>8, SameHeard DEF x
<1>11. UsersTyped(d, ft2, ls) /\ Pointed(DOMAIN s.of, d, ft2)
  BY <1>2, <1>5 DEF UsersTyped, Pointed
<1>12. \A u \in DOMAIN s.of \ {t} :
         /\ FlowsAt(ft2, u) = FlowsAt(ft, u)
         /\ Cardinality(GroupsAt(d, u)) = Cardinality(GroupsAt(d, u))
  BY <1>6
<1>13. Holds([list |-> s.list, of |-> [s.of EXCEPT ![t] = y], members |-> members], d, ft2, ls)
  BY <1>1, <1>2, <1>8, <1>9, <1>10, <1>11, <1>12, ChangeHolds
<1> QED
  BY <1>4, <1>13 DEF r, ft2
\* A LISTEN on a socket of the port that nobody hears on.
LEMMA ListenHolds ==
  ASSUME Proper, NEW s, NEW d, NEW ft, NEW ls, Holds(s, d, ft, ls),
         NEW port \in Port, NEW t \in DOMAIN s.of, t # NoTransport,
         s.of[t].srcPort = port, ~s.of[t].input, NEW n \in Nat, n > 0
  PROVE  Holds(Listen(s, t), d, ft, [ls EXCEPT ![port] = n])
<1> DEFINE x == s.of[t]
           o == Opened(x, t, TRUE)
           a == IF ~x.open THEN o
                ELSE IF ~x.bound THEN [x EXCEPT !.bound = TRUE]
                ELSE [x EXCEPT !.references = x.references + 1]
           y == Listening(x, t)
           ls2 == [ls EXCEPT ![port] = n]
           r == Listen(s, t)
<1>1. /\ s = [list |-> s.list, of |-> s.of, members |-> s.members]
      /\ s.of \in [DOMAIN s.of -> Socket] /\ x \in Socket /\ Lists(s.list, DOMAIN s.of) /\ t \in Nat
      /\ NoTransport \notin DOMAIN s.of /\ port # NoPort
  BY ReceptionAssumption DEF Holds, SocketsTyped, Lists, NoTransport, Proper
<1>2. /\ Counted(x, Uses(d, ft, t)) /\ Joined(s.members, d)
      /\ x.groupCount = Cardinality(GroupsAt(d, t))
      /\ UsersTyped(d, ft, ls) /\ Pointed(DOMAIN s.of, d, ft) /\ SocketsTyped(s)
      /\ \A p \in Port : ls[p] > 0 <=> HeardOn(s.of, p)
  BY DEF Holds
<1>3. /\ o \in Socket /\ o.references = x.references + 1 /\ o.open /\ o.bound
      /\ o.groupCount = x.groupCount /\ o.srcPort = x.srcPort
  <2> DEFINE bind == TRUE
  <2>1. o = Opened(x, t, bind) /\ bind \in BOOLEAN /\ x.srcPort # NoPort
    BY <1>1
  <2> HIDE DEF o, x, bind
  <2>2. /\ o \in Socket /\ o.references = x.references + 1 /\ o.open /\ o.bound = (x.bound \/ bind)
        /\ o.groupCount = x.groupCount /\ o.srcPort = x.srcPort
    BY <1>1, <2>1, OpenedIs
  <2> QED
    BY <2>2 DEF bind
<1>4. /\ a \in Socket /\ a.references = x.references + 1 /\ a.open /\ a.bound
      /\ a.groupCount = x.groupCount /\ a.srcPort = x.srcPort
  <2>1. x.open => x.bound
    BY <1>1, <1>2 DEF Counted
  <2>2. CASE ~x.open
    <3>1. a = o
      BY <2>2
    <3> HIDE DEF a, o, x
    <3> QED
      BY <1>3, <3>1
  <2>3. CASE x.open
    <3>1. a = [x EXCEPT !.references = x.references + 1]
      BY <2>1, <2>3
    <3> HIDE DEF a, x
    <3>2. x.references + 1 \in Nat
      BY <1>1 DEF Socket
    <3> QED
      BY <1>1, <2>1, <2>3, <3>1, <3>2 DEF Socket
  <2> QED
    BY <2>2, <2>3
<1>5. y = [a EXCEPT !.input = TRUE]
  BY DEF Listening
<1> HIDE DEF y, a, o
<1>6. /\ y \in Socket /\ y.references = x.references + 1 /\ y.open /\ y.bound /\ y.input
      /\ y.groupCount = x.groupCount /\ y.srcPort = port
  BY <1>4, <1>5 DEF Socket
<1>7. r = [list |-> s.list, of |-> [s.of EXCEPT ![t] = y], members |-> s.members]
  <2>1. r = [s EXCEPT !.of[t] = y]
    BY DEF Listen, y
  <2> HIDE DEF r
  <2> QED
    BY <1>1, <2>1
<1>8. ls2 \in [Port -> Nat] /\ ls2[port] > 0 /\ \A p \in Port : p # port => ls2[p] = ls[p]
  BY <1>2 DEF UsersTyped
<1> HIDE DEF x, r, ls2
<1>9. Counted(y, Uses(d, ft, t))
  <2>1. x.references \in Nat /\ ~x.input
    BY <1>1 DEF Socket, x
  <2>2. x.references = Uses(d, ft, t) + 0
    BY <1>2, <2>1 DEF Counted
  <2>3. Uses(d, ft, t) \in Nat
    BY <1>2, Finite DEF Uses
  <2>4. y.references = Uses(d, ft, t) + 1 /\ y.references > 0
    BY <1>6, <2>1, <2>2, <2>3
  <2> QED
    BY <1>6, <2>4 DEF Counted
<1>10. \A p \in Port : ls2[p] > 0 <=> HeardOn([s.of EXCEPT ![t] = y], p)
  <2> DEFINE of == [s.of EXCEPT ![t] = y]
  <2>1. DOMAIN of = DOMAIN s.of /\ of[t] = y /\ \A u \in DOMAIN s.of : u # t => of[u] = s.of[u]
    BY <1>1
  <2> HIDE DEF of
  <2>2. HeardOn(of, port)
    BY <1>6, <2>1 DEF HeardOn
  <2>3. \A p \in Port : p # port => (HeardOn(of, p) <=> HeardOn(s.of, p))
    BY <1>6, <2>1 DEF HeardOn
  <2>4. \A p \in Port : ls2[p] > 0 <=> HeardOn(of, p)
    BY <1>2, <1>8, <2>2, <2>3
  <2> QED
    BY <2>4 DEF of
<1>11. UsersTyped(d, ft, ls2)
  BY <1>2, <1>8 DEF UsersTyped
<1>12. \A u \in DOMAIN s.of \ {t} :
         /\ FlowsAt(ft, u) = FlowsAt(ft, u)
         /\ Cardinality(GroupsAt(d, u)) = Cardinality(GroupsAt(d, u))
  OBVIOUS
<1>13. y.groupCount = Cardinality(GroupsAt(d, t))
  BY <1>2, <1>6
<1>14. Holds([list |-> s.list, of |-> [s.of EXCEPT ![t] = y], members |-> s.members], d, ft, ls2)
  BY <1>1, <1>2, <1>6, <1>9, <1>10, <1>11, <1>12, <1>13, ChangeHolds
<1> QED
  BY <1>7, <1>14 DEF r, ls2

\* An IGNORE of port, which takes back the one reference of each LISTEN there.
LEMMA IgnoreHolds ==
  ASSUME Proper, NEW s, NEW d, NEW ft, NEW ls, Holds(s, d, ft, ls), NEW port \in Port,
         NEW T, T = Matching(s, port, NoInterface),
         \A t \in T : s.of[t].open => s.of[t].input
  PROVE  Holds(Ignored(s, T), d, ft, [ls EXCEPT ![port] = 0])
<1> DEFINE quiet(t) == [s.of[t] EXCEPT !.input = FALSE]
           of == [t \in DOMAIN s.of |-> IF t \in T THEN Released(quiet(t)) ELSE s.of[t]]
           members == {m \in s.members : m[1] \in T => ~Closes(s.of[m[1]])}
           ls2 == [ls EXCEPT ![port] = 0]
           r == Ignored(s, T)
<1>1. /\ s = [list |-> s.list, of |-> s.of, members |-> s.members]
      /\ s.of \in [DOMAIN s.of -> Socket] /\ Lists(s.list, DOMAIN s.of)
      /\ NoTransport \notin DOMAIN s.of /\ port # NoPort
  BY ReceptionAssumption DEF Holds, SocketsTyped, Lists, NoTransport, Proper
<1>2. /\ Joined(s.members, d)
      /\ UsersTyped(d, ft, ls) /\ Pointed(DOMAIN s.of, d, ft) /\ SocketsTyped(s)
      /\ \A p \in Port : ls[p] > 0 <=> HeardOn(s.of, p)
      /\ \A t \in DOMAIN s.of : Counted(s.of[t], Uses(d, ft, t))
      /\ \A t \in DOMAIN s.of : s.of[t].groupCount = Cardinality(GroupsAt(d, t))
  BY DEF Holds
<1>3. T = {t \in DOMAIN s.of : s.of[t].srcPort = port}
  BY <1>1 DEF Matching
<1>4. r = [list |-> s.list, of |-> of, members |-> members]
  <2>1. r = [s EXCEPT !.of = of, !.members = members]
    BY DEF Ignored
  <2> HIDE DEF r, of, members
  <2> QED
    BY <1>1, <2>1
<1>5. ASSUME NEW t \in T
      PROVE  /\ of[t] \in Socket /\ Counted(of[t], Uses(d, ft, t)) /\ ~of[t].input
             /\ of[t].srcPort = port /\ of[t].groupCount = Cardinality(GroupsAt(d, t))
             /\ Closes(s.of[t]) => GroupsAt(d, t) = {}
  <2> DEFINE x == s.of[t]
             q == quiet(t)
             y == Released(q)
             n == Uses(d, ft, t)
  <2>1. /\ t \in DOMAIN s.of /\ x \in Socket /\ x.srcPort = port /\ Counted(x, n) /\ (x.open => x.input)
        /\ x.groupCount = Cardinality(GroupsAt(d, t)) /\ x.references \in Nat
    BY <1>1, <1>2, <1>3, <1>5 DEF Socket
  <2>2. of[t] = y
    BY <1>5, <2>1
  <2>3. /\ n \in Nat /\ Cardinality(FlowsAt(ft, t)) \in Nat /\ Cardinality(GroupsAt(d, t)) \in Nat
        /\ IsFiniteSet(GroupsAt(d, t))
    BY <1>2, Finite DEF Uses
  <2>4. /\ q \in Socket /\ q.references = x.references /\ q.open = x.open /\ q.bound = x.bound /\ ~q.input
        /\ q.srcPort = x.srcPort /\ q.groupCount = x.groupCount
    <3>1. q = [x EXCEPT !.input = FALSE]
      OBVIOUS
    <3> HIDE DEF q, x
    <3> QED
      BY <2>1, <3>1 DEF Socket
  <2> HIDE DEF q, of
  <2>5. /\ y \in Socket /\ y.groupCount = q.groupCount /\ y.srcPort = q.srcPort
        /\ q.references = 0 => y = q
        /\ q.references = 1 => (y.references = 0 /\ ~y.open /\ ~y.bound /\ ~y.input)
        /\ q.references > 1 =>
             (y.references = q.references - 1 /\ y.open = q.open /\ y.bound = q.bound /\ y.input = q.input)
    BY <2>4, ReleasedIs
  <2> HIDE DEF y, x, n
  <2> DEFINE Quiet == /\ y \in Socket /\ Counted(y, n) /\ ~y.input
                      /\ y.srcPort = x.srcPort /\ y.groupCount = x.groupCount
                      /\ Closes(x) => GroupsAt(d, t) = {}
  <2>6. ASSUME x.references = 0 PROVE Quiet
    <3>1. ~x.open
      BY <2>1, <2>6 DEF Counted
    <3>2. y = q /\ ~Closes(x)
      BY <2>4, <2>5, <2>6 DEF Closes
    <3>3. Counted(y, n)
      <4>1. ~y.input /\ y.references = 0 /\ ~y.open
        BY <2>4, <2>6, <3>1, <3>2
      <4>2. 0 = n + (IF x.input THEN 1 ELSE 0)
        BY <2>1, <2>6 DEF Counted
      <4>3. n = 0
        BY <2>3, <4>2
      <4> QED
        BY <4>1, <4>3 DEF Counted
    <3> QED
      BY <2>4, <2>5, <3>2, <3>3
  <2>7. ASSUME x.references = 1 PROVE Quiet
    <3>1. x.open /\ x.input
      BY <2>1, <2>7 DEF Counted
    <3>2. 1 = n + 1
      BY <2>1, <2>7, <3>1 DEF Counted
    <3>3. n = 0
      BY <2>3, <3>2
    <3>4. y.references = 0 /\ ~y.open /\ ~y.input
      BY <2>4, <2>5, <2>7
    <3>5. Counted(y, n)
      BY <3>3, <3>4 DEF Counted
    <3>6. GroupsAt(d, t) = {}
      <4>1. Cardinality(FlowsAt(ft, t)) + Cardinality(GroupsAt(d, t)) = 0
        BY <3>3 DEF n, Uses
      <4>2. Cardinality(GroupsAt(d, t)) = 0
        BY <2>3, <4>1
      <4> QED
        BY <2>3, <4>2, FS_EmptySet
    <3> QED
      BY <2>4, <2>5, <3>4, <3>5, <3>6
  <2>8. ASSUME x.references > 1 PROVE Quiet
    <3>1. x.open /\ x.input
      BY <2>1, <2>8 DEF Counted
    <3>2. x.references = n + 1 /\ (x.srcPort # NoPort => x.bound)
      BY <2>1, <3>1 DEF Counted
    <3>3. y.references = x.references - 1 /\ y.open /\ y.bound = x.bound /\ ~y.input
      BY <2>4, <2>5, <2>8, <3>1
    <3>4. y.references = n + 0 /\ y.references > 0
      BY <2>1, <2>3, <2>8, <3>2, <3>3
    <3>5. Counted(y, n)
      BY <2>4, <2>5, <3>2, <3>3, <3>4 DEF Counted
    <3>6. ~Closes(x)
      BY <2>8 DEF Closes
    <3> QED
      BY <2>4, <2>5, <3>3, <3>5, <3>6
  <2>9. Quiet
    <3> HIDE DEF Quiet
    <3> QED
      BY <2>1, <2>6, <2>7, <2>8
  <2> QED
    BY <2>1, <2>2, <2>9 DEF x, n
<1>6. DOMAIN of = DOMAIN s.of /\ \A t \in DOMAIN s.of : t \notin T => of[t] = s.of[t]
  OBVIOUS
<1>7. members = s.members
  <2>1. ASSUME NEW m \in s.members, m[1] \in T PROVE ~Closes(s.of[m[1]])
    <3>1. PICK i \in ActiveIn(d) : m = MemberOf(d[i])
      BY <1>2 DEF Joined
    <3>2. m[1] = d[i].transport /\ i \in 1..Len(d)
      BY <3>1 DEF MemberOf, Member, ActiveIn
    <3>3. i \in GroupsAt(d, m[1])
      BY <3>2 DEF GroupsAt
    <3> QED
      BY <1>5, <2>1, <3>3
  <2> QED
    BY <2>1
<1>8. ls2 \in [Port -> Nat] /\ ls2[port] = 0 /\ \A p \in Port : p # port => ls2[p] = ls[p]
  BY <1>2 DEF UsersTyped
<1> HIDE DEF of, members, ls2
<1>9. SocketsTyped(r)
  <2>1. \A t \in DOMAIN of : of[t] \in Socket
    BY <1>1, <1>5, <1>6
  <2>2. of \in [DOMAIN of -> Socket]
    <3>1. of = [t \in DOMAIN of |-> of[t]]
      BY DEF of
    <3> HIDE DEF of
    <3> QED
      BY <2>1, <3>1
  <2> HIDE DEF r
  <2>3. r.list = s.list /\ r.of = of /\ r.members = members
        /\ r = [list |-> r.list, of |-> r.of, members |-> r.members]
    BY <1>4
  <2> QED
    BY <1>1, <1>6, <2>2, <2>3 DEF SocketsTyped
<1> HIDE DEF r
<1>10. r.list = s.list /\ r.of = of /\ r.members = s.members
  BY <1>4, <1>7
<1>11. \A p \in Port : ls2[p] > 0 <=> HeardOn(of, p)
  <2>1. ~HeardOn(of, port)
    BY <1>3, <1>5, <1>6 DEF HeardOn
  <2>2. \A p \in Port : p # port => (HeardOn(of, p) <=> HeardOn(s.of, p))
    BY <1>3, <1>5, <1>6 DEF HeardOn
  <2> QED
    BY <1>2, <1>8, <2>1, <2>2
<1>12. \A t \in DOMAIN of : Counted(of[t], Uses(d, ft, t)) /\ of[t].groupCount = Cardinality(GroupsAt(d, t))
  BY <1>2, <1>5, <1>6
<1>13. UsersTyped(d, ft, ls2)
  BY <1>2, <1>8 DEF UsersTyped
<1>14. Holds(r, d, ft, ls2)
  BY <1>2, <1>6, <1>9, <1>10, <1>11, <1>12, <1>13 DEF Holds
<1> QED
  BY <1>14 DEF r, ls2
-------------------------------------------------------------------------------
(* An entry that leaves.                                                   *)

\* d2 is d without entry i: each other one has one place there.
IsWithout(d, i, d2) ==
  /\ d2 \in Seq(EntryType)
  /\ \E from \in [1..Len(d2) -> 1..Len(d) \ {i}] :
       /\ \A j \in 1..Len(d2) : d2[j] = d[from[j]]
       /\ \A j, k \in 1..Len(d2) : from[j] = from[k] => j = k
       /\ \A k \in 1..Len(d) \ {i} : \E j \in 1..Len(d2) : from[j] = k

LEMMA RemovedEntry ==
  ASSUME NEW d \in Seq(EntryType), NEW i \in 1..Len(d)
  PROVE  IsWithout(d, i, RemoveAt(d, i))
<1> DEFINE d2 == RemoveAt(d, i)
           n == Len(d)
           n2 == Len(d2)
           from == [j \in 1..n2 |-> IF j < i THEN j ELSE j + 1]
<1>1. n \in Nat /\ i \in Int /\ i >= 1 /\ i <= n
  BY LenProperties
<1>2. d2 \in Seq(EntryType) /\ n2 = n - 1
      /\ \A j \in 1..(n - 1) : d2[j] = IF j < i THEN d[j] ELSE d[j + 1]
  BY RemoveAtProperties
<1> HIDE DEF d2, n, n2
<1>3. \A j \in 1..n2 : from[j] = (IF j < i THEN j ELSE j + 1) /\ j \in 1..(n - 1)
  BY <1>2
<1>4. from \in [1..n2 -> 1..n \ {i}]
  BY <1>1, <1>2
<1> HIDE DEF from
<1>5. \A j \in 1..n2 : d2[j] = d[from[j]]
  BY <1>2, <1>3
<1>6. ASSUME NEW j \in 1..n2, NEW k \in 1..n2, from[j] = from[k] PROVE j = k
  BY <1>1, <1>2, <1>3, <1>6
<1>7. ASSUME NEW k \in 1..n \ {i} PROVE \E j \in 1..n2 : from[j] = k
  <2>1. CASE k < i
    <3>1. k \in 1..n2
      BY <1>1, <1>2, <2>1
    <3> QED
      BY <1>3, <2>1, <3>1
  <2>2. CASE ~(k < i)
    <3>1. k - 1 \in 1..n2 /\ ~(k - 1 < i) /\ (k - 1) + 1 = k
      BY <1>1, <1>2, <1>7, <2>2
    <3> QED
      BY <1>3, <3>1
  <2> QED
    BY <2>1, <2>2
<1>8. \E a \in [1..n2 -> 1..n \ {i}] :
        /\ \A j \in 1..n2 : d2[j] = d[a[j]]
        /\ \A j, k \in 1..n2 : a[j] = a[k] => j = k
        /\ \A k \in 1..n \ {i} : \E j \in 1..n2 : a[j] = k
  BY <1>4, <1>5, <1>6, <1>7
<1>9. IsWithout(d, i, d2)
  BY <1>2, <1>8, Zenon DEF IsWithout, n, n2
<1> QED
  BY <1>9 DEF d2

LEMMA WithoutGroups ==
  ASSUME NEW d \in Seq(EntryType), NEW i \in 1..Len(d), NEW d2, IsWithout(d, i, d2), NEW u
  PROVE  Cardinality(GroupsAt(d2, u)) = Cardinality(GroupsAt(d, u) \ {i})
<1>1. PICK from \in [1..Len(d2) -> 1..Len(d) \ {i}] :
        /\ \A j \in 1..Len(d2) : d2[j] = d[from[j]]
        /\ \A j, k \in 1..Len(d2) : from[j] = from[k] => j = k
        /\ \A k \in 1..Len(d) \ {i} : \E j \in 1..Len(d2) : from[j] = k
  BY DEF IsWithout
<1> DEFINE S == GroupsAt(d2, u)
           T == GroupsAt(d, u) \ {i}
           g == [j \in S |-> from[j]]
<1>2. \A j \in S : from[j] \in T
  BY <1>1 DEF GroupsAt
<1>3. g \in [S -> T]
  BY <1>2
<1>4. \A j \in S : g[j] = from[j] /\ j \in 1..Len(d2)
  BY DEF GroupsAt
<1>5. \A k \in T : \E j \in S : from[j] = k
  BY <1>1 DEF GroupsAt
<1> HIDE DEF g
<1>6. \A j, k \in S : g[j] = g[k] => j = k
  BY <1>1, <1>4
<1>7. \A k \in T : \E j \in S : g[j] = k
  BY <1>4, <1>5
<1>8. IsFiniteSet(S)
  <2>1. Len(d2) \in Nat
    BY LenProperties DEF IsWithout
  <2>2. IsFiniteSet(1..Len(d2))
    BY <2>1, FS_Interval
  <2> QED
    BY <2>2, FS_Subset DEF GroupsAt
<1> HIDE DEF S, T
<1>9. g \in Bijection(S, T)
  BY <1>3, <1>6, <1>7, Fun_IsBij
<1>10. ExistsBijection(S, T)
  BY <1>9 DEF ExistsBijection
<1>11. Cardinality(T) = Cardinality(S)
  BY <1>8, <1>10, FS_Bijection
<1> QED
  BY <1>11 DEF S, T

\* The group of an entry that leaves is no longer joined.
LEMMA WithoutJoined ==
  ASSUME NEW d \in Seq(EntryType), NEW i \in 1..Len(d), NEW d2, IsWithout(d, i, d2),
         NEW members, Joined(members, d)
  PROVE  /\ d[i].transport = NoTransport => Joined(members, d2)
         /\ d[i].transport # NoTransport => Joined(members \ {MemberOf(d[i])}, d2)
<1>1. PICK from \in [1..Len(d2) -> 1..Len(d) \ {i}] :
        /\ \A j \in 1..Len(d2) : d2[j] = d[from[j]]
        /\ \A j, k \in 1..Len(d2) : from[j] = from[k] => j = k
        /\ \A k \in 1..Len(d) \ {i} : \E j \in 1..Len(d2) : from[j] = k
  BY DEF IsWithout
<1> DEFINE A == ActiveIn(d)
           A2 == ActiveIn(d2)
           ms == {MemberOf(d[k]) : k \in A \ {i}}
<1>2. /\ \A j \in A2 : from[j] \in A \ {i} /\ d2[j] = d[from[j]]
      /\ \A k \in A \ {i} : \E j \in A2 : from[j] = k
      /\ \A j, k \in A2 : from[j] = from[k] => j = k
  BY <1>1 DEF ActiveIn
<1>3. /\ members = {MemberOf(d[k]) : k \in A}
      /\ \A j, k \in A : MemberOf(d[j]) = MemberOf(d[k]) => j = k
  BY DEF Joined
<1> HIDE DEF A, A2
<1>4. Joined(ms, d2)
  <2>1. \A j, k \in A2 : MemberOf(d2[j]) = MemberOf(d2[k]) => j = k
    BY <1>2, <1>3
  <2>2. ms = {MemberOf(d2[j]) : j \in A2}
    <3>1. \A j \in A2 : MemberOf(d2[j]) \in ms
      BY <1>2
    <3>2. \A m \in ms : \E j \in A2 : m = MemberOf(d2[j])
      BY <1>2
    <3> QED
      BY <3>1, <3>2
  <2> HIDE DEF ms
  <2> QED
    BY <2>1, <2>2 DEF Joined, A2
<1>5. CASE d[i].transport = NoTransport
  <2>1. i \notin A
    BY <1>5 DEF A, ActiveIn
  <2>2. ms = members
    BY <1>3, <2>1
  <2> HIDE DEF ms
  <2> QED
    BY <1>4, <1>5, <2>2
<1>6. CASE d[i].transport # NoTransport
  <2>1. i \in A
    BY <1>6 DEF A, ActiveIn
  <2>2. ms = members \ {MemberOf(d[i])}
    <3>1. \A m \in ms : m \in members \ {MemberOf(d[i])}
      BY <1>3, <2>1
    <3>2. \A m \in members \ {MemberOf(d[i])} : m \in ms
      BY <1>3, <2>1
    <3> QED
      BY <3>1, <3>2
  <2> HIDE DEF ms
  <2> QED
    BY <1>4, <1>6, <2>2
<1> QED
  BY <1>5, <1>6
LEMMA WithoutUsers ==
  ASSUME NEW s, NEW d, NEW ft, NEW ls, Holds(s, d, ft, ls), NEW i \in 1..Len(d)
  PROVE  UsersTyped(RemoveAt(d, i), ft, ls) /\ Pointed(DOMAIN s.of, RemoveAt(d, i), ft)
<1> DEFINE d2 == RemoveAt(d, i)
<1>1. UsersTyped(d, ft, ls) /\ Pointed(DOMAIN s.of, d, ft) /\ d \in Seq(EntryType)
  BY DEF Holds, UsersTyped
<1>2. IsWithout(d, i, d2)
  BY <1>1, RemovedEntry
<1> HIDE DEF d2
<1>3. \A j \in 1..Len(d2) : \E k \in 1..Len(d) : d2[j] = d[k]
  BY <1>2 DEF IsWithout
<1>4. \A j \in 1..Len(d2) : d2[j].transport \in DOMAIN s.of \cup {NoTransport}
  BY <1>1, <1>3 DEF Pointed
<1>5. UsersTyped(d2, ft, ls)
  BY <1>1, <1>2 DEF UsersTyped, IsWithout
<1> QED
  BY <1>1, <1>4, <1>5 DEF Pointed, d2

\* An entry that is not active leaves.
LEMMA InactiveLeaves ==
  ASSUME Proper, NEW s, NEW d, NEW ft, NEW ls, Holds(s, d, ft, ls),
         NEW i \in 1..Len(d), d[i].transport = NoTransport
  PROVE  Holds(s, RemoveAt(d, i), ft, ls)
<1> DEFINE d2 == RemoveAt(d, i)
<1>1. /\ d \in Seq(EntryType) /\ Joined(s.members, d) /\ Lists(s.list, DOMAIN s.of)
      /\ UsersTyped(d, ft, ls)
  BY DEF Holds, UsersTyped, SocketsTyped
<1>2. IsWithout(d, i, d2) /\ UsersTyped(d2, ft, ls) /\ Pointed(DOMAIN s.of, d2, ft)
  BY <1>1, RemovedEntry, WithoutUsers
<1> HIDE DEF d2
<1>3. Joined(s.members, d2)
  BY <1>1, <1>2, WithoutJoined
<1>4. ASSUME NEW u \in DOMAIN s.of
      PROVE  Cardinality(GroupsAt(d2, u)) = Cardinality(GroupsAt(d, u))
  <2>1. u # NoTransport
    BY <1>1 DEF Lists, NoTransport
  <2>2. GroupsAt(d, u) \ {i} = GroupsAt(d, u)
    BY <2>1 DEF GroupsAt
  <2>3. Cardinality(GroupsAt(d2, u)) = Cardinality(GroupsAt(d, u) \ {i})
    BY <1>1, <1>2, WithoutGroups
  <2> QED
    BY <2>2, <2>3
<1>5. \A u \in DOMAIN s.of : Uses(d2, ft, u) = Uses(d, ft, u)
  BY <1>4 DEF Uses
<1>6. Holds(s, d2, ft, ls)
  BY <1>2, <1>3, <1>4, <1>5 DEF Holds
<1> QED
  BY <1>6 DEF d2

\* An active entry leaves: its group is left, and the socket is closed by the last.
LEMMA LeaveHolds ==
  ASSUME Proper, NEW s, NEW d, NEW ft, NEW ls, Holds(s, d, ft, ls),
         NEW i \in 1..Len(d), NEW t, t = d[i].transport, t # NoTransport
  PROVE  Holds(Left(WithoutGroup(s, t, Member(t, d[i])), t), RemoveAt(d, i), ft, ls)
<1> DEFINE x == s.of[t]
           q == [x EXCEPT !.groupCount = x.groupCount - 1]
           y == Released(q)
           m == Member(t, d[i])
           less == s.members \ {m}
           d2 == RemoveAt(d, i)
           given == WithoutGroup(s, t, m)
           closed == Close(given, t)
           members == IF Closes(q) THEN {k \in less : k[1] # t} ELSE less
           list == <<t>> \o RemoveFirst(s.list, t)
           r == Left(given, t)
<1>1. /\ s = [list |-> s.list, of |-> s.of, members |-> s.members]
      /\ s.of \in [DOMAIN s.of -> Socket] /\ Lists(s.list, DOMAIN s.of)
      /\ NoTransport \notin DOMAIN s.of
  BY DEF Holds, SocketsTyped, Lists, NoTransport
<1>2. t \in DOMAIN s.of /\ t \in Nat \ {0}
  BY <1>1 DEF Holds, Pointed, Lists
<1>3. /\ x \in Socket
      /\ Counted(x, Uses(d, ft, t)) /\ Joined(s.members, d)
      /\ x.groupCount = Cardinality(GroupsAt(d, t))
      /\ UsersTyped(d, ft, ls) /\ d \in Seq(EntryType) /\ SocketsTyped(s)
      /\ \A p \in Port : ls[p] > 0 <=> HeardOn(s.of, p)
  BY <1>1, <1>2 DEF Holds, UsersTyped
<1>4. IsWithout(d, i, d2) /\ UsersTyped(d2, ft, ls) /\ Pointed(DOMAIN s.of, d2, ft)
  BY <1>3, RemovedEntry, WithoutUsers
<1>5. m = MemberOf(d[i])
  BY DEF MemberOf
<1>6. Joined(less, d2)
  <2> HIDE DEF d2, m
  <2> QED
    BY <1>3, <1>4, <1>5, WithoutJoined
<1>7. given = [list |-> s.list, of |-> [s.of EXCEPT ![t] = q], members |-> less]
  <2>1. given = [s EXCEPT !.members = less, !.of[t] = q]
    BY DEF WithoutGroup
  <2> HIDE DEF q, less, given
  <2> QED
    BY <1>1, <2>1
<1>8. closed = [list |-> s.list, of |-> [s.of EXCEPT ![t] = y], members |-> members]
  <2> HIDE DEF given, q, less
  <2>1. given.of[t] = q /\ given.members = less
    BY <1>1, <1>2, <1>7
  <2>2. closed = [given EXCEPT !.of[t] = y, !.members = members]
    BY <2>1 DEF Close
  <2> HIDE DEF y, members, closed
  <2> QED
    BY <1>1, <1>7, <2>2
<1>9. r = [list |-> list, of |-> [s.of EXCEPT ![t] = y], members |-> members]
  <2> HIDE DEF given, y, members
  <2>1. r = [closed EXCEPT !.list = <<t>> \o RemoveFirst(closed.list, t)]
    BY DEF Left
  <2> HIDE DEF closed, r
  <2>2. closed.list = s.list
    BY <1>8
  <2>3. r = [closed EXCEPT !.list = list]
    BY <2>1, <2>2
  <2> HIDE DEF list
  <2> QED
    BY <1>8, <2>3
<1> HIDE DEF r, given, closed, m, less, d2
<1>10. Lists(list, DOMAIN s.of)
  <2>1. Lists(RemoveFirst(s.list, t), DOMAIN s.of \ {t}) /\ t \notin DOMAIN s.of \ {t}
    BY <1>1, <1>2, RemoveLists
  <2>2. Lists(list, (DOMAIN s.of \ {t}) \cup {t})
    BY <1>2, <2>1, PrependLists
  <2>3. (DOMAIN s.of \ {t}) \cup {t} = DOMAIN s.of
    BY <1>2
  <2> HIDE DEF list
  <2> QED
    BY <2>2, <2>3
<1>11. /\ Cardinality(GroupsAt(d2, t)) = Cardinality(GroupsAt(d, t)) - 1
       /\ Cardinality(GroupsAt(d2, t)) \in Nat /\ Cardinality(GroupsAt(d, t)) \in Nat
       /\ Cardinality(FlowsAt(ft, t)) \in Nat /\ IsFiniteSet(GroupsAt(d2, t))
  <2>1. Cardinality(GroupsAt(d2, t)) = Cardinality(GroupsAt(d, t) \ {i})
    BY <1>3, <1>4, WithoutGroups
  <2>2. i \in GroupsAt(d, t)
    BY DEF GroupsAt
  <2>3. /\ IsFiniteSet(GroupsAt(d, t)) /\ Cardinality(GroupsAt(d, t)) \in Nat
        /\ Cardinality(FlowsAt(ft, t)) \in Nat
    BY <1>3, Finite
  <2>4. Cardinality(GroupsAt(d2, t)) \in Nat /\ IsFiniteSet(GroupsAt(d2, t))
    BY <1>4, Finite
  <2>5. Cardinality(GroupsAt(d, t) \ {i}) = Cardinality(GroupsAt(d, t)) - 1
    BY <2>2, <2>3, FS_RemoveElement
  <2> QED
    BY <2>1, <2>3, <2>4, <2>5
<1>12. Uses(d, ft, t) = Uses(d2, ft, t) + 1 /\ Uses(d2, ft, t) \in Nat
  BY <1>11 DEF Uses
<1>13. /\ q \in Socket /\ Counted(q, Uses(d2, ft, t) + 1) /\ q.input = x.input /\ q.srcPort = x.srcPort
       /\ q.groupCount = Cardinality(GroupsAt(d2, t))
  <2> DEFINE c == x.groupCount - 1
  <2>1. c = Cardinality(GroupsAt(d2, t)) /\ c \in Nat
    BY <1>3, <1>11
  <2>2. q = [x EXCEPT !.groupCount = c]
    OBVIOUS
  <2> HIDE DEF q, c, x
  <2>3. /\ q \in Socket /\ q.references = x.references /\ q.open = x.open /\ q.bound = x.bound
        /\ q.input = x.input /\ q.srcPort = x.srcPort /\ q.groupCount = c
    BY <1>3, <2>1, <2>2 DEF Socket
  <2> QED
    BY <1>3, <1>12, <2>1, <2>3 DEF Counted
<1> HIDE DEF q
<1>14. /\ y \in Socket /\ Counted(y, Uses(d2, ft, t))
       /\ y.input = x.input /\ y.srcPort = x.srcPort
       /\ y.groupCount = Cardinality(GroupsAt(d2, t))
       /\ Closes(q) => Uses(d2, ft, t) = 0
  <2>1. /\ y \in Socket /\ Counted(y, Uses(d2, ft, t))
        /\ y.input = q.input /\ y.srcPort = q.srcPort /\ y.groupCount = q.groupCount
        /\ Closes(q) => Uses(d2, ft, t) = 0
    BY <1>12, <1>13, FewerUsers
  <2> HIDE DEF y
  <2> QED
    BY <1>13, <2>1
<1> HIDE DEF y
<1>15. Joined(members, d2)
  <2>1. CASE Closes(q)
    <3>1. Cardinality(FlowsAt(ft, t)) + Cardinality(GroupsAt(d2, t)) = 0
      BY <1>14, <2>1 DEF Uses
    <3>2. Cardinality(GroupsAt(d2, t)) = 0
      BY <1>11, <3>1
    <3>3. GroupsAt(d2, t) = {}
      BY <1>11, <3>2, FS_EmptySet
    <3>4. members = {k \in less : k[1] # t}
      BY <2>1
    <3> HIDE DEF members
    <3>5. {k \in less : k[1] # t} = less
      BY <1>6, <3>3, MembersStay
    <3> QED
      BY <1>6, <3>4, <3>5
  <2>2. CASE ~Closes(q)
    BY <1>6, <2>2
  <2> QED
    BY <2>1, <2>2
<1> HIDE DEF members, list
<1>16. \A p \in Port : ls[p] > 0 <=> HeardOn([s.of EXCEPT ![t] = y], p)
  BY <1>2, <1>3, <1>14, SameHeard DEF x
<1>17. \A u \in DOMAIN s.of \ {t} :
         /\ FlowsAt(ft, u) = FlowsAt(ft, u)
         /\ Cardinality(GroupsAt(d2, u)) = Cardinality(GroupsAt(d, u))
  <2>1. ASSUME NEW u \in DOMAIN s.of \ {t}
        PROVE  Cardinality(GroupsAt(d2, u)) = Cardinality(GroupsAt(d, u))
    <3>1. GroupsAt(d, u) \ {i} = GroupsAt(d, u)
      BY DEF GroupsAt
    <3>2. Cardinality(GroupsAt(d2, u)) = Cardinality(GroupsAt(d, u) \ {i})
      BY <1>3, <1>4, WithoutGroups
    <3> QED
      BY <3>1, <3>2
  <2> QED
    BY <2>1
<1>18. Holds([list |-> list, of |-> [s.of EXCEPT ![t] = y], members |-> members], d2, ft, ls)
  BY <1>2, <1>4, <1>10, <1>14, <1>15, <1>16, <1>17, ChangeHolds
<1> QED
  BY <1>9, <1>18 DEF r, d2, given, m
\* An entry that is not active yet.
LEMMA AppendHolds ==
  ASSUME NEW s, NEW d, NEW ft, NEW ls, Holds(s, d, ft, ls),
         NEW e \in EntryType, e.transport = NoTransport
  PROVE  Holds(s, Append(d, e), ft, ls)
<1> DEFINE d2 == Append(d, e)
           n == Len(d)
<1>1. /\ d \in Seq(EntryType) /\ Joined(s.members, d) /\ Lists(s.list, DOMAIN s.of)
      /\ UsersTyped(d, ft, ls) /\ Pointed(DOMAIN s.of, d, ft) /\ n \in Nat
  BY LenProperties DEF Holds, UsersTyped, SocketsTyped
<1>2. /\ d2 \in Seq(EntryType) /\ Len(d2) = n + 1 /\ d2[n + 1] = e
      /\ \A j \in 1..n : d2[j] = d[j]
  BY <1>1, AppendProperties
<1> HIDE DEF d2, n
<1>3. \A j \in 1..(n + 1) : j \in 1..n \/ j = n + 1
  BY <1>1
<1>4. \A j \in 1..n : j \in 1..(n + 1)
  BY <1>1
<1>5. UsersTyped(d2, ft, ls)
  BY <1>1, <1>2 DEF UsersTyped
<1>6. \A j \in 1..n : d[j].transport \in DOMAIN s.of \cup {NoTransport}
  BY <1>1 DEF Pointed, n
<1>7. Pointed(DOMAIN s.of, d2, ft)
  BY <1>1, <1>2, <1>3, <1>6 DEF Pointed
<1>8. ActiveIn(d2) = ActiveIn(d)
  <2>1. \A j \in 1..(n + 1) : d2[j].transport # NoTransport <=> (j \in 1..n /\ d[j].transport # NoTransport)
    <3>1. n + 1 \notin 1..n
      BY <1>1
    <3> QED
      BY <1>2, <1>3, <3>1
  <2> QED
    BY <1>2, <1>4, <2>1 DEF ActiveIn, n
<1>9. \A j \in ActiveIn(d) : d2[j] = d[j]
  BY <1>2 DEF ActiveIn, n
<1>10. Joined(s.members, d2)
  <2> DEFINE A == ActiveIn(d)
  <2>1. /\ s.members = {MemberOf(d[i]) : i \in A}
        /\ \A i, j \in A : MemberOf(d[i]) = MemberOf(d[j]) => i = j
    BY <1>1 DEF Joined
  <2> HIDE DEF A
  <2>2. \A j \in A : d2[j] = d[j]
    BY <1>9 DEF A
  <2>3. /\ s.members = {MemberOf(d2[i]) : i \in A}
        /\ \A i, j \in A : MemberOf(d2[i]) = MemberOf(d2[j]) => i = j
    BY <2>1, <2>2
  <2> QED
    BY <1>8, <2>3 DEF Joined, A
<1>11. ASSUME NEW u \in DOMAIN s.of PROVE GroupsAt(d2, u) = GroupsAt(d, u)
  <2>1. u # NoTransport
    BY <1>1 DEF Lists, NoTransport
  <2>2. \A j \in 1..(n + 1) : d2[j].transport = u <=> (j \in 1..n /\ d[j].transport = u)
    <3>1. n + 1 \notin 1..n
      BY <1>1
    <3> QED
      BY <1>2, <1>3, <2>1, <3>1
  <2> QED
    BY <1>2, <1>4, <2>2 DEF GroupsAt, n
<1>12. Holds(s, d2, ft, ls)
  BY <1>5, <1>7, <1>10, <1>11 DEF Holds, Uses
<1> QED
  BY <1>12 DEF d2

-------------------------------------------------------------------------------
(* JoinDeferredGroups: one entry after the other.                          *)

StepOf(before, n, answer) ==
  LET result == JoinGroup(before.sockets, before.groups[n], answer, answer)
  IN IF before.groups[n].transport # NoTransport THEN before
     ELSE [sockets |-> result.sockets, groups |-> WithTransport(before.groups, n, result.transport)]

LEMMA StepHolds ==
  ASSUME Proper, NEW b, NEW ft, NEW ls, Holds(b.sockets, b.groups, ft, ls), NEW n \in 1..Len(b.groups)
  PROVE  LET after == StepOf(b, n, TRUE)
         IN Holds(after.sockets, after.groups, ft, ls) /\ Len(after.groups) = Len(b.groups)
<1> DEFINE d == b.groups
           r == JoinGroup(b.sockets, d[n], TRUE, TRUE)
           joined == [sockets |-> r.sockets, groups |-> WithTransport(d, n, r.transport)]
           after == StepOf(b, n, TRUE)
<1>1. after = IF d[n].transport # NoTransport THEN b ELSE joined
  BY DEF StepOf
<1>2. d \in Seq(EntryType) /\ d[n] \in EntryType
  BY ElementOfSeq DEF Holds, UsersTyped
<1> SUFFICES Holds(after.sockets, after.groups, ft, ls) /\ Len(after.groups) = Len(d)
  OBVIOUS
<1> HIDE DEF after
<1>3. CASE d[n].transport # NoTransport
  BY <1>1, <1>3
<1>4. CASE d[n].transport = NoTransport
  <2>1. Holds(r.sockets, WithTransport(d, n, r.transport), ft, ls)
    <3> DEFINE a == TRUE
               e == d[n]
               s == b.sockets
    <3>1. a \in BOOLEAN /\ Holds(s, d, ft, ls) /\ e \in EntryType
      BY <1>2
    <3>2. e.group = d[n].group /\ e.interface = d[n].interface
      OBVIOUS
    <3> HIDE DEF d, s, a, e
    <3>3. LET q == JoinGroup(s, e, TRUE, a)
          IN Holds(q.sockets, WithTransport(d, n, q.transport), ft, ls)
      BY <1>4, <3>1, <3>2, JoinKeeps DEF d
    <3> QED
      BY <3>3 DEF a, e, s, d
  <2> HIDE DEF r
  <2>2. after = [sockets |-> r.sockets, groups |-> WithTransport(d, n, r.transport)]
    BY <1>1, <1>4
  <2>3. Len(WithTransport(d, n, r.transport)) = Len(d)
    <3> DEFINE e == [d[n] EXCEPT !.transport = r.transport]
    <3>1. d \in [1..Len(d) -> EntryType] /\ Len(d) \in Nat
      BY <1>2, LenProperties
    <3>2. WithTransport(d, n, r.transport) = [d EXCEPT ![n] = e]
      BY DEF WithTransport
    <3> HIDE DEF e, d
    <3> DEFINE d2 == [d EXCEPT ![n] = e]
    <3>3. d2 \in [1..Len(d) -> EntryType \cup {e}]
      BY <3>1
    <3> HIDE DEF d2
    <3>4. Len(d2) = Len(d)
      BY <3>1, <3>3, LenProperties
    <3> QED
      BY <3>2, <3>4 DEF d2
  <2> HIDE DEF d
  <2> QED
    BY <2>1, <2>2, <2>3
<1> QED
  BY <1>3, <1>4

\* g has what there is after each of the first m entries.
Steps(answer, m, g) ==
  /\ g = [n \in 0..m |-> g[n]]
  /\ g[0] = [sockets |-> sockets, groups |-> drecGroups]
  /\ \A n \in 1..m : g[n] = StepOf(g[n - 1], n, answer[n])

LEMMA StepsExist ==
  ASSUME NEW answer, NEW N \in Nat
  PROVE  \E g : Steps(answer, N, g)
<1> DEFINE T == {m \in 0..N : ~\E g : Steps(answer, m, g)}
<1>1. SUFFICES ASSUME T # {} PROVE FALSE
  OBVIOUS
<1>2. PICK m \in T : \A y \in T : m <= y
  <2>1. T \subseteq Nat
    OBVIOUS
  <2> HIDE DEF T
  <2> QED
    BY <1>1, <2>1, LeastOf
<1>3. m \in 0..N /\ ~\E g : Steps(answer, m, g)
  BY <1>2
<1>4. m # 0
  <2> DEFINE first == [sockets |-> sockets, groups |-> drecGroups]
  <2>1. Steps(answer, 0, [n \in 0..0 |-> first])
    <3> HIDE DEF first
    <3>1. 0 \in 0..0 /\ 1..0 = {}
      OBVIOUS
    <3>2. [n \in 0..0 |-> first][0] = first
      BY <3>1
    <3> QED
      BY <3>1, <3>2 DEF Steps, first
  <2> QED
    BY <1>3, <2>1
<1>5. m - 1 \in 0..N /\ m - 1 < m /\ m \in 1..N /\ m \in Int
  BY <1>3, <1>4
<1>6. m - 1 \notin T
  BY <1>2, <1>3, <1>5
<1>7. PICK f : Steps(answer, m - 1, f)
  BY <1>5, <1>6
<1> DEFINE last == StepOf(f[m - 1], m, answer[m])
           g == [n \in 0..m |-> IF n = m THEN last ELSE f[n]]
<1>8. Steps(answer, m, g)
  <2>1. /\ f[0] = [sockets |-> sockets, groups |-> drecGroups]
        /\ \A n \in 1..(m - 1) : f[n] = StepOf(f[n - 1], n, answer[n])
    BY <1>7 DEF Steps
  <2>2. \A n \in 0..m : g[n] = IF n = m THEN last ELSE f[n]
    OBVIOUS
  <2>3. g = [n \in 0..m |-> g[n]]
    OBVIOUS
  <2> HIDE DEF g, last
  <2>4. 0 \in 0..m /\ 0 # m /\ m \in 0..m
    BY <1>4, <1>5
  <2>5. g[0] = [sockets |-> sockets, groups |-> drecGroups]
    BY <2>1, <2>2, <2>4
  <2>6. ASSUME NEW n \in 1..m PROVE g[n] = StepOf(g[n - 1], n, answer[n])
    <3>1. n \in 0..m /\ n - 1 \in 0..m /\ n - 1 # m
      BY <1>5, <2>6
    <3>2. g[n - 1] = f[n - 1]
      BY <2>2, <3>1
    <3>3. CASE n = m
      BY <2>2, <2>4, <3>2, <3>3 DEF last
    <3>4. CASE n # m
      <4>1. n \in 1..(m - 1)
        BY <1>5, <2>6, <3>4
      <4> QED
        BY <2>1, <2>2, <3>1, <3>2, <3>4, <4>1
    <3> QED
      BY <3>3, <3>4
  <2> QED
    BY <2>3, <2>5, <2>6 DEF Steps
<1> QED
  BY <1>3, <1>8

LEMMA ActivatedHolds ==
  ASSUME Proper, Holds(sockets, drecGroups, flowTransport, listens),
         NEW answer \in [1..Len(drecGroups) -> JoinAnswers \cap OpenAnswers]
  PROVE  Holds(Activated(answer).sockets, Activated(answer).groups, flowTransport, listens)
<1> DEFINE N == Len(drecGroups)
           first == [sockets |-> sockets, groups |-> drecGroups]
           step(a, n) == IF n = 0 THEN first ELSE StepOf(a[n - 1], n, answer[n])
           after == CHOOSE a : a = [n \in 0..N |-> step(a, n)]
<1>1. N \in Nat
  BY LenProperties DEF Holds, UsersTyped
<1>2. \A n \in 1..N : answer[n] = TRUE
  BY ReceptionAssumption DEF Proper
<1>3. Activated(answer) = after[N]
  BY DEF Activated, StepOf, WithTransport
<1> HIDE DEF N
<1>4. PICK g : Steps(answer, N, g)
  BY <1>1, StepsExist
<1>5. g = [n \in 0..N |-> step(g, n)]
  <2>1. ASSUME NEW n \in 0..N PROVE g[n] = step(g, n)
    <3>1. n # 0 => n \in 1..N
      BY <1>1
    <3> QED
      BY <1>4, <3>1 DEF Steps
  <2>2. g = [n \in 0..N |-> g[n]]
    BY <1>4 DEF Steps
  <2> HIDE DEF step
  <2> QED
    BY <2>1, <2>2
<1>6. after = [n \in 0..N |-> step(after, n)]
  <2> HIDE DEF step
  <2> QED
    BY <1>5
<1> HIDE DEF after
<1>7. \A n \in 0..N : after[n] = step(after, n)
  <2> HIDE DEF step
  <2> QED
    BY <1>6
<1> DEFINE Good(n) == /\ Holds(after[n].sockets, after[n].groups, flowTransport, listens)
                      /\ Len(after[n].groups) = N
           T == {n \in 0..N : ~Good(n)}
<1>8. SUFFICES ASSUME T # {} PROVE FALSE
  <2>1. N \in 0..N
    BY <1>1
  <2> QED
    BY <1>3, <2>1
<1>9. PICK n \in T : \A y \in T : n <= y
  <2>1. T \subseteq Nat
    BY <1>1
  <2> HIDE DEF T
  <2> QED
    BY <1>8, <2>1, LeastOf
<1>10. n \in 0..N /\ ~Good(n)
  BY <1>9
<1>11. n # 0
  <2>1. Good(0)
    <3>1. 0 \in 0..N
      BY <1>1
    <3>2. after[0] = first
      BY <1>7, <3>1
    <3>3. after[0].sockets = sockets /\ after[0].groups = drecGroups
      BY <3>2
    <3> QED
      BY <3>3 DEF N
  <2> QED
    BY <1>10, <2>1
<1>12. n - 1 \in 0..N /\ n - 1 < n /\ n \in 1..N /\ n \in Int
  BY <1>1, <1>10, <1>11
<1>13. n - 1 \notin T
  BY <1>9, <1>12
<1>14. Good(n - 1)
  BY <1>12, <1>13
<1> DEFINE b == after[n - 1]
<1>15. after[n] = StepOf(b, n, TRUE)
  BY <1>2, <1>7, <1>10, <1>11, <1>12
<1>16. Holds(b.sockets, b.groups, flowTransport, listens) /\ Len(b.groups) = N /\ n \in 1..Len(b.groups)
  BY <1>12, <1>14
<1> HIDE DEF b
<1>17. LET q == StepOf(b, n, TRUE)
       IN Holds(q.sockets, q.groups, flowTransport, listens) /\ Len(q.groups) = Len(b.groups)
  BY <1>16, StepHolds
<1>18. Good(n)
  BY <1>15, <1>16, <1>17
<1> QED
  BY <1>10, <1>18
-------------------------------------------------------------------------------
(* Each action keeps the invariant.                                        *)

IInv == Holds(sockets, drecGroups, flowTransport, listens)

LEMMA InitHolds ==
  ASSUME Proper, Init
  PROVE  IInv
<1> DEFINE s == NoSockets
<1>1. s.list = << >> /\ s.of = << >> /\ s.members = {} /\ s = [list |-> s.list, of |-> s.of, members |-> s.members]
  BY DEF NoSockets
<1>2. DOMAIN << >> = {} /\ << >> \in Seq(Nat \ {0}) /\ Len(<< >>) = 0 /\ << >> \in Seq(EntryType) /\ 1..0 = {}
  BY EmptySeq
<1>3. sockets = s /\ drecGroups = << >> /\ flowTransport = [f \in Flow |-> NoTransport]
      /\ listens = [p \in Port |-> 0]
  BY DEF Init
<1> HIDE DEF s
<1>4. SocketsTyped(s)
  <2>1. s.of \in [DOMAIN s.of -> Socket] /\ DOMAIN s.of = {}
    <3>1. \A S : << >> \in [{} -> S]
      <4>1. << >> = [i \in {} |-> {}]
        OBVIOUS
      <4> QED
        BY <4>1
    <3> QED
      BY <1>1, <1>2, <3>1
  <2>2. Lists(s.list, {})
    BY <1>1, <1>2 DEF Lists
  <2> QED
    BY <1>1, <2>1, <2>2 DEF SocketsTyped
<1>5. DOMAIN s.of = {}
  BY <1>1, <1>2
<1>6. UsersTyped(drecGroups, flowTransport, listens)
  BY <1>2, <1>3 DEF UsersTyped, NoTransport
<1>7. Len(drecGroups) = 0 /\ ActiveIn(drecGroups) = {}
  BY <1>2, <1>3 DEF ActiveIn
<1>8. Pointed(DOMAIN s.of, drecGroups, flowTransport)
  BY <1>2, <1>3, <1>7 DEF Pointed
<1>9. Joined(s.members, drecGroups)
  BY <1>1, <1>7 DEF Joined
<1>10. \A p \in Port : listens[p] > 0 <=> HeardOn(s.of, p)
  BY <1>3, <1>5 DEF HeardOn
<1> QED
  BY <1>3, <1>4, <1>5, <1>6, <1>8, <1>9, <1>10 DEF IInv, Holds

LEMMA FlowOnKeeps ==
  ASSUME Proper, IInv, NEW f \in Flow, NEW port \in Port \cup {NoPort},
         NEW i \in Interfaces, NEW opens \in OpenAnswers, FlowOn(f, port, i, opens)
  PROVE  IInv'
<1> DEFINE T == Matching(sockets, port, i)
           got == GetMgenTransport(sockets, port, T)
           t == got.transport
           set == IF i = NoInterface THEN got.sockets ELSE SetInterface(got.sockets, t, i)
           opened == Open(set, t, TRUE)
           ft2 == [flowTransport EXCEPT ![f] = t]
<1>1. opens = TRUE
  BY ReceptionAssumption DEF Proper
<1>2. /\ flowTransport[f] = NoTransport
      /\ sockets' = opened
      /\ flowTransport' = ft2
      /\ drecGroups' = drecGroups /\ listens' = listens
  BY <1>1 DEF FlowOn
<1>3. Holds(sockets, drecGroups, flowTransport, listens) /\ T \subseteq DOMAIN sockets.of
  BY DEF IInv, Matching
<1> HIDE DEF T
<1>4. /\ Holds(got.sockets, drecGroups, flowTransport, listens)
      /\ t \in DOMAIN got.sockets.of /\ t # NoTransport
  BY <1>3, GetHolds
<1> HIDE DEF got, t
<1>5. Holds(set, drecGroups, flowTransport, listens) /\ t \in DOMAIN set.of
  BY <1>4, InterfaceHolds
<1> HIDE DEF set
<1>6. Holds(opened, drecGroups, ft2, listens)
  BY <1>2, <1>4, <1>5, FlowOnHolds
<1> HIDE DEF opened, ft2
<1> QED
  BY <1>2, <1>6 DEF IInv

LEMMA FlowOffKeeps ==
  ASSUME Proper, IInv, NEW f \in Flow, FlowOff(f)
  PROVE  IInv'
<1> DEFINE t == flowTransport[f]
           closed == Close(sockets, t)
           ft2 == [flowTransport EXCEPT ![f] = NoTransport]
<1>1. /\ t # NoTransport /\ t \in DOMAIN sockets.of
      /\ sockets' = closed /\ flowTransport' = ft2
      /\ drecGroups' = drecGroups /\ listens' = listens
  BY DEF FlowOff
<1>2. Holds(sockets, drecGroups, flowTransport, listens)
  BY DEF IInv
<1>3. Holds(closed, drecGroups, ft2, listens)
  BY <1>1, <1>2, FlowOffHolds
<1> HIDE DEF closed, ft2
<1> QED
  BY <1>1, <1>3 DEF IInv

LEMMA ListenKeeps ==
  ASSUME Proper, IInv, NEW port \in Port, NEW opens \in OpenAnswers, ListenEvent(port, opens)
  PROVE  IInv'
<1> DEFINE T == Matching(sockets, port, NoInterface)
           got == GetMgenTransport(sockets, port, T)
           t == got.transport
           r == Listen(got.sockets, t)
           ls2 == [listens EXCEPT ![port] = listens[port] + 1]
<1>1. opens = TRUE
  BY ReceptionAssumption DEF Proper
<1>2. /\ Tidy => listens[port] = 0
      /\ sockets' = r
      /\ listens' = ls2
      /\ drecGroups' = drecGroups /\ flowTransport' = flowTransport
  BY <1>1 DEF ListenEvent
<1>3. /\ Holds(sockets, drecGroups, flowTransport, listens)
      /\ T = {u \in DOMAIN sockets.of : sockets.of[u].srcPort = port}
  BY ReceptionAssumption DEF IInv, Matching, Proper, NoPort
<1>4. ~HeardOn(sockets.of, port) /\ listens[port] + 1 \in Nat /\ listens[port] + 1 > 0
  <2>1. listens[port] = 0
    BY <1>2, ReceptionAssumption DEF Proper
  <2> QED
    BY <1>3, <2>1 DEF Holds
<1>5. T \subseteq DOMAIN sockets.of /\ port \in Port \cup {NoPort}
  BY <1>3
<1> HIDE DEF T
<1>6. /\ Holds(got.sockets, drecGroups, flowTransport, listens)
      /\ t \in DOMAIN got.sockets.of /\ t # NoTransport
      /\ T = {} => got.sockets.of[t] = NewTransport(port)
      /\ T # {} => got.sockets = sockets /\ t \in T
  <2>1. Holds(sockets, drecGroups, flowTransport, listens)
    BY <1>3
  <2> QED
    BY <1>5, <2>1, GetHolds
<1> HIDE DEF got, t
<1>7. got.sockets.of[t].srcPort = port /\ ~got.sockets.of[t].input
  <2>1. CASE T = {}
    BY <1>6, <2>1 DEF NewTransport
  <2>2. CASE T # {}
    BY <1>3, <1>4, <1>6, <2>2 DEF HeardOn
  <2> QED
    BY <2>1, <2>2
<1> DEFINE n == listens[port] + 1
<1> HIDE DEF n
<1>8. n \in Nat /\ n > 0
  BY <1>4 DEF n
<1>9. Holds(r, drecGroups, flowTransport, [listens EXCEPT ![port] = n])
  BY <1>6, <1>7, <1>8, ListenHolds
<1>10. Holds(r, drecGroups, flowTransport, ls2)
  BY <1>9 DEF n
<1> HIDE DEF r, ls2
<1> QED
  BY <1>2, <1>10 DEF IInv

LEMMA IgnoreKeeps ==
  ASSUME Proper, IInv, NEW port \in Port, IgnoreEvent(port)
  PROVE  IInv'
<1> DEFINE T == Matching(sockets, port, NoInterface)
           r == Ignored(sockets, T)
           ls2 == [listens EXCEPT ![port] = 0]
<1>1. /\ \A t \in T : sockets.of[t].open => sockets.of[t].input
      /\ sockets' = r /\ listens' = ls2
      /\ drecGroups' = drecGroups /\ flowTransport' = flowTransport
  BY ReceptionAssumption DEF IgnoreEvent, Proper
<1>2. Holds(sockets, drecGroups, flowTransport, listens)
  BY DEF IInv
<1>3. T = Matching(sockets, port, NoInterface)
  OBVIOUS
<1> HIDE DEF T
<1>4. Holds(r, drecGroups, flowTransport, ls2)
  BY <1>1, <1>2, <1>3, IgnoreHolds
<1> HIDE DEF r, ls2
<1> QED
  BY <1>1, <1>4 DEF IInv

\* Found is the place of the entry with the key of e.
LEMMA FoundIs ==
  ASSUME IInv, NEW e, Found(e) # 0
  PROVE  /\ Found(e) \in 1..Len(drecGroups)
         /\ Key(drecGroups[Found(e)]) = Key(e)
<1> DEFINE I == {i \in 1..Len(drecGroups) : Key(drecGroups[i]) = Key(e)}
<1>1. Len(drecGroups) \in Nat
  BY LenProperties DEF IInv, Holds, UsersTyped
<1>2. Found(e) = IF I = {} THEN 0 ELSE Min(I)
  BY DEF Found, SelectInSeq
<1>3. I # {} /\ Found(e) = Min(I)
  <2> HIDE DEF I
  <2> QED
    BY <1>2
<1>4. Min(I) \in I
  <2>1. I \subseteq Nat
    BY <1>1
  <2> HIDE DEF I
  <2> QED
    BY <1>3, <2>1, MinIs
<1> QED
  BY <1>3, <1>4

LEMMA JoinEventKeeps ==
  ASSUME Proper, IInv, NEW e \in EntryType, e.transport = NoTransport,
         NEW opens \in OpenAnswers, NEW joins \in JoinAnswers, JoinEvent(e, opens, joins)
  PROVE  IInv'
<1> DEFINE i == Found(e)
           d == IF i = 0 THEN Append(drecGroups, e) ELSE drecGroups
           at == IF i = 0 THEN Len(d) ELSE i
           result == JoinGroup(sockets, e, opens, joins)
<1>1. opens = TRUE /\ joins \in BOOLEAN
  BY ReceptionAssumption DEF Proper
<1>2. /\ i # 0 => drecGroups[i].transport = NoTransport
      /\ \/ drecGroups' = d /\ sockets' = sockets
         \/ sockets' = result.sockets /\ drecGroups' = [d EXCEPT ![at].transport = result.transport]
      /\ flowTransport' = flowTransport /\ listens' = listens
  BY DEF JoinEvent
<1>3. Holds(sockets, drecGroups, flowTransport, listens) /\ drecGroups \in Seq(EntryType)
  BY DEF IInv, Holds, UsersTyped
<1>4. /\ Holds(sockets, d, flowTransport, listens)
      /\ at \in 1..Len(d) /\ d[at].transport = NoTransport
      /\ e.group = d[at].group /\ e.interface = d[at].interface
  <2>1. CASE i = 0
    <3>1. d = Append(drecGroups, e) /\ at = Len(d)
      BY <2>1
    <3> HIDE DEF i, d, at
    <3>2. Holds(sockets, d, flowTransport, listens)
      BY <1>3, <3>1, AppendHolds
    <3>3. Len(d) = Len(drecGroups) + 1 /\ d[Len(drecGroups) + 1] = e /\ Len(drecGroups) \in Nat
      BY <1>3, <3>1, AppendProperties, LenProperties
    <3>4. at \in 1..Len(d) /\ d[at] = e
      BY <3>1, <3>3
    <3> QED
      BY <3>2, <3>4
  <2>2. CASE i # 0
    <3>1. d = drecGroups /\ at = i
      BY <2>2
    <3>2. i \in 1..Len(drecGroups) /\ Key(drecGroups[i]) = Key(e)
      BY <2>2, FoundIs
    <3> HIDE DEF i, d, at
    <3>3. e.group = drecGroups[i].group /\ e.interface = drecGroups[i].interface
      BY <3>2 DEF Key
    <3> QED
      BY <1>2, <1>3, <2>2, <3>1, <3>2, <3>3
  <2> QED
    BY <2>1, <2>2
<1> HIDE DEF d, at, i
<1>5. CASE drecGroups' = d /\ sockets' = sockets
  BY <1>2, <1>4, <1>5 DEF IInv
<1>6. CASE sockets' = result.sockets /\ drecGroups' = [d EXCEPT ![at].transport = result.transport]
  <2> DEFINE q == JoinGroup(sockets, e, TRUE, joins)
  <2>1. result = q
    BY <1>1
  <2>2. drecGroups' = WithTransport(d, at, q.transport)
    BY <1>6, <2>1 DEF WithTransport
  <2>3. Holds(q.sockets, WithTransport(d, at, q.transport), flowTransport, listens)
    BY <1>1, <1>4, JoinKeeps
  <2>4. sockets' = q.sockets
    BY <1>6, <2>1
  <2> HIDE DEF q, result
  <2> QED
    BY <1>2, <2>2, <2>3, <2>4 DEF IInv
<1> QED
  BY <1>2, <1>5, <1>6

LEMMA LeaveEventKeeps ==
  ASSUME Proper, IInv, NEW e, LeaveEvent(e)
  PROVE  IInv'
<1> DEFINE i == Found(e)
           t == drecGroups[i].transport
           m == Member(t, e)
           d2 == RemoveAt(drecGroups, i)
<1>1. /\ i # 0
      /\ \/ t = NoTransport /\ sockets' = sockets
         \/ t # NoTransport /\ sockets' = Left(WithoutGroup(sockets, t, m), t)
      /\ drecGroups' = d2
      /\ flowTransport' = flowTransport /\ listens' = listens
  BY DEF LeaveEvent
<1>2. Holds(sockets, drecGroups, flowTransport, listens)
  BY DEF IInv
<1>3. i \in 1..Len(drecGroups) /\ Key(drecGroups[i]) = Key(e)
  BY <1>1, FoundIs
<1>4. m = Member(t, drecGroups[i])
  BY <1>3 DEF Key, Member
<1> HIDE DEF i, m
<1>5. CASE t = NoTransport /\ sockets' = sockets
  <2>1. Holds(sockets, d2, flowTransport, listens)
    BY <1>2, <1>3, <1>5, InactiveLeaves
  <2> HIDE DEF d2
  <2> QED
    BY <1>1, <1>5, <2>1 DEF IInv
<1>6. CASE t # NoTransport /\ sockets' = Left(WithoutGroup(sockets, t, m), t)
  <2> DEFINE r == Left(WithoutGroup(sockets, t, Member(t, drecGroups[i])), t)
  <2>1. Holds(r, d2, flowTransport, listens)
    BY <1>2, <1>3, <1>6, LeaveHolds
  <2>2. sockets' = r
    BY <1>4, <1>6
  <2> HIDE DEF d2, r
  <2> QED
    BY <1>1, <2>1, <2>2 DEF IInv
<1> QED
  BY <1>1, <1>5, <1>6

LEMMA DeferredKeeps ==
  ASSUME Proper, IInv, NEW answer \in [1..Len(drecGroups) -> JoinAnswers \cap OpenAnswers],
         JoinDeferredGroups(answer)
  PROVE  IInv'
<1>1. /\ sockets' = Activated(answer).sockets /\ drecGroups' = Activated(answer).groups
      /\ flowTransport' = flowTransport /\ listens' = listens
  BY DEF JoinDeferredGroups
<1>2. Holds(Activated(answer).sockets, Activated(answer).groups, flowTransport, listens)
  BY ActivatedHolds DEF IInv
<1> QED
  BY <1>1, <1>2 DEF IInv

LEMMA StepKeeps ==
  ASSUME Proper, IInv, [Next]_vars
  PROVE  IInv'
<1>1. CASE UNCHANGED vars
  BY <1>1 DEF vars, IInv
<1>2. ASSUME NEW f \in Flow, NEW port \in Port \cup {NoPort}, NEW i \in Interface \cup {NoInterface},
             NEW opens \in OpenAnswers, FlowOn(f, port, i, opens)
      PROVE  IInv'
  BY <1>2, FlowOnKeeps DEF Interfaces
<1>3. ASSUME NEW f \in Flow, FlowOff(f) PROVE IInv'
  BY <1>3, FlowOffKeeps
<1>4. ASSUME NEW port \in Port, NEW opens \in OpenAnswers, ListenEvent(port, opens) PROVE IInv'
  BY <1>4, ListenKeeps
<1>5. ASSUME NEW port \in Port, IgnoreEvent(port) PROVE IInv'
  BY <1>5, IgnoreKeeps
<1>6. ASSUME NEW g \in Group, NEW i \in Interface \cup {NoInterface}, NEW port \in Port \cup {NoPort},
             NEW opens \in OpenAnswers, NEW joins \in JoinAnswers,
             JoinEvent(Entry(g, i, port), opens, joins)
      PROVE  IInv'
  <2> DEFINE e == Entry(g, i, port)
  <2>1. e \in EntryType /\ e.transport = NoTransport
    BY DEF Entry, EntryType, Interfaces, NoTransport
  <2>2. JoinEvent(e, opens, joins)
    BY <1>6
  <2> HIDE DEF e
  <2> QED
    BY <2>1, <2>2, JoinEventKeeps
<1>7. ASSUME NEW g \in Group, NEW i \in Interface \cup {NoInterface}, NEW port \in Port \cup {NoPort},
             LeaveEvent(Entry(g, i, port))
      PROVE  IInv'
  BY <1>7, LeaveEventKeeps
<1>8. ASSUME NEW answer \in [1..Len(drecGroups) -> JoinAnswers \cap OpenAnswers],
             JoinDeferredGroups(answer)
      PROVE  IInv'
  BY <1>8, DeferredKeeps
<1> QED
  BY <1>1, <1>2, <1>3, <1>4, <1>5, <1>6, <1>7, <1>8
     DEF Next, FlowEvents, FlowEvent, DrecEvents
-------------------------------------------------------------------------------
(* What follows from the invariant.                                        *)

\* The groups of a transport are as many as the entries that joined one on it.
LEMMA GroupsOfTransport ==
  ASSUME Proper, IInv, NEW t \in DOMAIN sockets.of
  PROVE  Cardinality({m \in sockets.members : m[1] = t}) = Cardinality(GroupsAt(drecGroups, t))
<1> DEFINE S == GroupsAt(drecGroups, t)
           T == {m \in sockets.members : m[1] = t}
           f == [i \in S |-> MemberOf(drecGroups[i])]
<1>1. t # NoTransport
  BY LenProperties DEF IInv, Holds, SocketsTyped, Lists, NoTransport
<1>2. \A i \in S : i \in ActiveIn(drecGroups) /\ drecGroups[i].transport = t
  BY <1>1 DEF GroupsAt, ActiveIn
<1>3. Joined(sockets.members, drecGroups)
  BY DEF IInv, Holds
<1>4. \A e : MemberOf(e)[1] = e.transport
  BY DEF MemberOf, Member
<1>5. \A i \in S : f[i] \in T
  BY <1>2, <1>3, <1>4 DEF Joined
<1>6. \A i, j \in S : f[i] = f[j] => i = j
  BY <1>2, <1>3 DEF Joined
<1>7. \A m \in T : \E i \in S : f[i] = m
  <2> SUFFICES ASSUME NEW m \in T PROVE \E i \in S : f[i] = m
    OBVIOUS
  <2>1. PICK i \in ActiveIn(drecGroups) : m = MemberOf(drecGroups[i])
    BY <1>3 DEF Joined
  <2>2. i \in S
    BY <1>4, <2>1 DEF GroupsAt, ActiveIn
  <2> QED
    BY <2>1, <2>2
<1>8. f \in [S -> T]
  BY <1>5
<1>9. IsFiniteSet(S)
  BY Finite DEF IInv, Holds
<1> HIDE DEF S, T, f
<1>10. f \in Bijection(S, T)
  BY <1>6, <1>7, <1>8, Fun_IsBij
<1>11. ExistsBijection(S, T)
  BY <1>10, Fun_ExistsBij
<1> QED
  BY <1>9, <1>11, FS_Bijection DEF S, T

LEMMA HoldsReferences ==
  ASSUME Proper, IInv
  PROVE  ReferencesMatch
<1>1. DOMAIN drecGroups = 1..Len(drecGroups)
  BY LenProperties DEF IInv, Holds, UsersTyped
<1>2. ASSUME NEW t \in DOMAIN sockets.of
      PROVE  FlowsOn(t) = FlowsAt(flowTransport, t) /\ GroupsOn(t) = GroupsAt(drecGroups, t)
  BY <1>1 DEF FlowsOn, FlowsAt, GroupsOn, GroupsAt
<1> QED
  BY <1>2 DEF ReferencesMatch, IInv, Holds, Counted, Uses

LEMMA HoldsJoined ==
  ASSUME Proper, IInv
  PROVE  StaysJoined
<1>1. DOMAIN drecGroups = 1..Len(drecGroups)
  BY LenProperties DEF IInv, Holds, UsersTyped
<1>2. ASSUME NEW i \in DOMAIN drecGroups, drecGroups[i].transport # NoTransport
      PROVE  MemberOf(drecGroups[i]) \in sockets.members
  BY <1>1, <1>2 DEF IInv, Holds, Joined, ActiveIn
<1>3. ASSUME NEW t \in DOMAIN sockets.of
      PROVE  sockets.of[t].groupCount = Cardinality({m \in sockets.members : m[1] = t})
  BY <1>3, GroupsOfTransport DEF IInv, Holds
<1> QED
  BY <1>2, <1>3 DEF StaysJoined, MemberOf

\* A socket that hears has a reference for it, so it is open.
LEMMA HoldsHeard ==
  ASSUME Proper, IInv
  PROVE  Heard
<1>1. ASSUME NEW t \in DOMAIN sockets.of, sockets.of[t].input
      PROVE  sockets.of[t].open
  <2> DEFINE n == Uses(drecGroups, flowTransport, t)
  <2>1. n \in Nat
    BY Finite DEF IInv, Holds, Uses
  <2>2. Counted(sockets.of[t], n)
    BY DEF IInv, Holds
  <2> HIDE DEF n
  <2> QED
    BY <1>1, <2>1, <2>2 DEF Counted
<1> QED
  BY <1>1 DEF Heard, IInv, Holds, HeardOn

-------------------------------------------------------------------------------
(* The options of sockets that are shared.                                 *)

\* Open does not give back BROADCAST, and a MOD of TTL alone does not know the kind of
\* destination; both are left out.
Known == "BROADCAST" \notin Options /\ ~MovesWithTtl

Names == {"any"} \cup {dst.to : dst \in Destinations \cup {Sharing!Nowhere}}

Transport ==
  [port : Nat, to : Names, kept : [Sharing!Fields -> Nat], socket : [Sharing!Fields -> Nat],
   open : BOOLEAN, references : Int]

\* A transport keeps what it was told, a socket that is open has it, and one that
\* somebody uses is open: Close never opens one.
Told(t, values) ==
  /\ t.kept = values
  /\ t.open => t.socket = values
  /\ t.references > 0 => t.open

\* ts and values belong together.
InStep(ts, values) ==
  /\ ts \in Seq(Transport) /\ values \in Seq([Sharing!Fields -> Nat])
  /\ Len(values) = Len(ts)
  /\ \A i \in 1..Len(ts) : Told(ts[i], values[i])

\* The inductive invariant.
Applied ==
  /\ option \in Options
  /\ flows \in [Sharers -> [transport : 0..Len(transports), dst : Destinations \cup {Sharing!Nowhere}]]
  /\ InStep(transports, told)

LEMMA AppliedInit ==
  ASSUME Known, Sharing!Init
  PROVE  Applied
BY DEF Sharing!Init, Applied, InStep

-------------------------------------------------------------------------------
(* What is done to one transport.                                          *)

LEMMA SetTold ==
  ASSUME NEW t \in Transport, NEW values \in [Sharing!Fields -> Nat], Told(t, values),
         NEW f \in Sharing!Fields, NEW v \in Nat
  PROVE  /\ Sharing!Set(t, f, v) \in Transport
         /\ Told(Sharing!Set(t, f, v), [values EXCEPT ![f] = v])
<1>1. DOMAIN t.kept = Sharing!Fields /\ DOMAIN t.socket = Sharing!Fields
  BY DEF Transport
<1>2. /\ Sharing!Set(t, f, v).kept = [t.kept EXCEPT ![f] = v]
      /\ Sharing!Set(t, f, v).socket = [t.socket EXCEPT ![f] = IF t.open THEN v ELSE @]
      /\ Sharing!Set(t, f, v).open = t.open /\ Sharing!Set(t, f, v).references = t.references
      /\ Sharing!Set(t, f, v) \in Transport
  BY DEF Sharing!Set, Transport
<1> QED
  BY <1>2 DEF Told

LEMMA OpenTold ==
  ASSUME Known, option \in Options, NEW t \in Transport, NEW values \in [Sharing!Fields -> Nat], Told(t, values),
         NEW number \in Nat
  PROVE  Sharing!Open(t, number) \in Transport /\ Told(Sharing!Open(t, number), values)
<1>1. Sharing!Open(t, number) \in Transport
  <2>1. ASSUME NEW port \in Nat, NEW socket \in [Sharing!Fields -> Nat], NEW references \in Int,
               NEW open \in BOOLEAN
        PROVE  [t EXCEPT !.open = open, !.references = references, !.port = port,
                         !.socket = socket] \in Transport
    BY DEF Transport
  <2> DEFINE port == IF t.port = 0 THEN 10 + number ELSE t.port
             socket == [f \in Sharing!Fields |-> IF Sharing!Reapplied(t, f) THEN t.kept[f]
                                        ELSE IF t.open THEN t.socket[f] ELSE 0]
             references == t.references + 1
             yes == TRUE
  <2>2. port \in Nat /\ socket \in [Sharing!Fields -> Nat] /\ references \in Int /\ yes \in BOOLEAN
    BY DEF Transport
  <2>3. Sharing!Open(t, number) = [t EXCEPT !.open = yes, !.references = references, !.port = port,
                                    !.socket = socket]
    BY DEF Sharing!Open
  <2> HIDE DEF port, socket, references, yes
  <2>4. [t EXCEPT !.open = yes, !.references = references, !.port = port,
                  !.socket = socket] \in Transport
    BY <2>1, <2>2, Zenon
  <2> QED
    BY <2>3, <2>4, Zenon
<1>2. ASSUME NEW f \in Sharing!Fields PROVE Sharing!Open(t, number).socket[f] = values[f]
  <2>1. Sharing!Reapplied(t, f) \/ (option # "TTL" /\ t.kept[f] = 0)
    BY SharingAssumption DEF Sharing!Reapplied, Known
  <2> QED
    BY <2>1 DEF Sharing!Open, Told, Transport
<1>3. Sharing!Open(t, number).kept = values /\ Sharing!Open(t, number).open
  BY DEF Sharing!Open, Told, Transport
<1>4. Sharing!Open(t, number).socket = values
  BY <1>1, <1>2 DEF Transport
<1> QED
  BY <1>1, <1>3, <1>4 DEF Told

LEMMA CloseTold ==
  ASSUME NEW t \in Transport, NEW values, Told(t, values)
  PROVE  Sharing!Close(t) \in Transport /\ Told(Sharing!Close(t), values)
<1> DEFINE used == t.references > 1
           references == t.references - 1
<1>1. used \in BOOLEAN /\ references \in Int
  BY DEF Transport
<1>2. references > 0 => used
  BY DEF Transport
<1>3. used => t.open
  BY DEF Transport, Told
<1>4. Sharing!Close(t) = [t EXCEPT !.references = references, !.open = used]
  BY DEF Sharing!Close
<1> HIDE DEF used, references
<1>5. /\ Sharing!Close(t) \in Transport /\ Sharing!Close(t).kept = t.kept /\ Sharing!Close(t).socket = t.socket
      /\ Sharing!Close(t).open = used /\ Sharing!Close(t).references = references
  BY <1>1, <1>4 DEF Transport
<1> QED
  BY <1>2, <1>3, <1>5 DEF Told

LEMMA NewTold ==
  ASSUME Known, NEW port \in Nat, NEW to \in Names
  PROVE  /\ Sharing!NewTransport(port, to) \in Transport /\ Sharing!Fresh \in [Sharing!Fields -> Nat]
         /\ Told(Sharing!NewTransport(port, to), Sharing!Fresh)
BY SharingAssumption DEF Sharing!NewTransport, Transport, Sharing!Fresh, Told, Known

\* The newest of the transports found is one of them.
LEMMA Least ==
  ASSUME NEW T, T \subseteq Nat, T # {}
  PROVE  \E x \in T : \A y \in T : x <= y
<1> DEFINE Less == OpToRel(<, Nat)
<1>1. IsWellFoundedOn(Less, Nat)
  BY NatLessThanWellFounded
<1>2. \A x, y \in Nat : y < x => <<y, x>> \in Less
  BY DEF OpToRel
<1> HIDE DEF Less
<1>3. PICK x \in T : \A y \in T : ~(<<y, x>> \in Less)
  BY <1>1, WFMin
<1>4. \A y \in T : ~(y < x)
  BY <1>2, <1>3
<1> QED
  BY <1>4

LEMMA Greatest ==
  ASSUME NEW n \in Nat, NEW T, T \subseteq 1..n, T # {}
  PROVE  (CHOOSE i \in T : \A j \in T : j <= i) \in T
<1> DEFINE below == {n - i : i \in T}
<1>1. below \subseteq Nat /\ below # {}
  <2>1. \A i \in T : i \in Int /\ n - i \in Nat
    OBVIOUS
  <2>2. PICK i \in T : TRUE
    OBVIOUS
  <2>3. n - i \in below
    BY <2>2
  <2> QED
    BY <2>1, <2>3
<1>2. PICK b \in below : \A c \in below : b <= c
  <2> HIDE DEF below
  <2> QED
    BY <1>1, Least
<1>3. PICK i \in T : b = n - i
  BY <1>2
<1>4. ASSUME NEW j \in T PROVE j <= i
  <2>1. n - j \in below
    OBVIOUS
  <2>2. n - i <= n - j /\ i \in 1..n /\ j \in 1..n
    BY <1>2, <1>3, <2>1
  <2> QED
    BY <2>2
<1> QED
  BY <1>4

LEMMA FindPlace ==
  ASSUME NEW ts, Len(ts) \in Nat, NEW port, NEW to, NEW interface
  PROVE  Sharing!Find(ts, port, to, interface) \in 0..Len(ts)
<1> DEFINE found == {i \in 1..Len(ts) :
                       /\ port = 0 \/ ts[i].port = port
                       /\ interface = Sharing!None \/ Sharing!Named(ts[i]) = interface
                       /\ ts[i].to = to}
           first == CHOOSE i \in found : \A j \in found : j <= i
<1>1. Sharing!Find(ts, port, to, interface) = IF found = {} THEN 0 ELSE first
  BY DEF Sharing!Find, Sharing!Newest
<1>2. found # {} => first \in found
  BY Greatest
<1> QED
  BY <1>1, <1>2

\* What a transport was told, after an event that says e of it to a flow that sends
\* to dst.
Telling(values, e, dst) ==
  IF e.value = Sharing!None THEN values ELSE [values EXCEPT ![Sharing!FieldOf(dst)] = e.value]

LEMMA FieldOfIn ==
  ASSUME NEW dst
  PROVE  Sharing!FieldOf(dst) \in Sharing!Fields
BY DEF Sharing!FieldOf, Sharing!Fields

LEMMA OptionTold ==
  ASSUME NEW t \in Transport, NEW values \in [Sharing!Fields -> Nat], Told(t, values),
         NEW e, NEW dst, e.value \in Nat \cup {Sharing!None},
         e.value # Sharing!None => Sharing!FieldOf(e.dst) = Sharing!FieldOf(dst)
  PROVE  /\ Sharing!SetEventOptions(t, e) \in Transport
         /\ Telling(values, e, dst) \in [Sharing!Fields -> Nat]
         /\ Told(Sharing!SetEventOptions(t, e), Telling(values, e, dst))
<1>1. CASE e.value = Sharing!None
  BY <1>1 DEF Sharing!SetEventOptions, Telling
<1>2. CASE e.value # Sharing!None
  <2>1. Sharing!FieldOf(dst) \in Sharing!Fields /\ e.value \in Nat
    BY <1>2, FieldOfIn
  <2>2. Sharing!SetEventOptions(t, e) = Sharing!Set(t, Sharing!FieldOf(dst), e.value)
    BY <1>2 DEF Sharing!SetEventOptions
  <2>3. Telling(values, e, dst) = [values EXCEPT ![Sharing!FieldOf(dst)] = e.value]
    BY <1>2 DEF Telling
  <2> DEFINE f == Sharing!FieldOf(dst)
             v == e.value
  <2>4. f \in Sharing!Fields /\ v \in Nat
    BY <2>1
  <2> HIDE DEF f, v
  <2>5. /\ Sharing!Set(t, f, v) \in Transport
        /\ Told(Sharing!Set(t, f, v), [values EXCEPT ![f] = v])
        /\ [values EXCEPT ![f] = v] \in [Sharing!Fields -> Nat]
    BY <2>4, SetTold
  <2> QED
    BY <2>2, <2>3, <2>5 DEF f, v
<1> QED
  BY <1>1, <1>2

\* Telling it twice is telling it once.
LEMMA TellingTwice ==
  ASSUME NEW values \in [Sharing!Fields -> Nat], NEW e, NEW dst
  PROVE  Telling(Telling(values, e, dst), e, dst) = Telling(values, e, dst)
BY FieldOfIn DEF Telling

-------------------------------------------------------------------------------
(* What is done to the list of transports.                                 *)

LEMMA InStepAt ==
  ASSUME NEW ts, NEW values, InStep(ts, values), NEW p \in 1..Len(ts)
  PROVE  /\ ts[p] \in Transport /\ values[p] \in [Sharing!Fields -> Nat] /\ Told(ts[p], values[p])
         /\ p \in Nat
BY DEF InStep

LEMMA ChangedLength ==
  ASSUME NEW ts \in Seq(Transport), NEW p, NEW t
  PROVE  Len([ts EXCEPT ![p] = t]) = Len(ts)
OBVIOUS

LEMMA ChangeOne ==
  ASSUME NEW ts, NEW values, InStep(ts, values), NEW p \in 1..Len(ts),
         NEW t \in Transport, NEW v \in [Sharing!Fields -> Nat], Told(t, v)
  PROVE  InStep([ts EXCEPT ![p] = t], [values EXCEPT ![p] = v])
BY DEF InStep

Before(ts) == [i \in 1..Len(ts) |-> IF i <= Len(told) THEN told[i] ELSE Sharing!Fresh]

LEMMA GetTransport ==
  ASSUME Known, NEW ts, InStep(ts, told), NEW port \in Nat, NEW to \in Names, NEW interface,
         NEW with, with = Sharing!With(ts, port, to, interface),
         NEW place, place = Sharing!Place(ts, port, to, interface)
  PROVE  /\ InStep(with, Before(with))
         /\ place \in 1..Len(with)
         /\ Len(with) \in Nat /\ Len(with) >= Len(ts)
<1> DEFINE found == Sharing!Find(ts, port, to, interface)
<1>1. ts \in Seq(Transport) /\ Len(ts) \in Nat /\ Len(told) = Len(ts)
      /\ told \in Seq([Sharing!Fields -> Nat])
  BY DEF InStep
<1>2. found \in 0..Len(ts)
  BY <1>1, FindPlace
<1>3. CASE found # 0
  <2>1. with = ts /\ place = found
    BY <1>3 DEF Sharing!With, Sharing!Place
  <2>2. Before(ts) = told
    BY <1>1 DEF Before
  <2>3. InStep(with, Before(with))
    BY <2>1, <2>2
  <2> HIDE DEF found
  <2> QED
    BY <1>1, <1>2, <1>3, <2>1, <2>3
<1>4. CASE found = 0
  <2> DEFINE new == Sharing!NewTransport(port, to)
  <2>1. with = Append(ts, new) /\ place = Len(ts) + 1
    BY <1>4 DEF Sharing!With, Sharing!Place
  <2>2. new \in Transport /\ Sharing!Fresh \in [Sharing!Fields -> Nat] /\ Told(new, Sharing!Fresh)
    BY NewTold
  <2> HIDE DEF new
  <2>3. with \in Seq(Transport) /\ Len(with) = Len(ts) + 1
    BY <1>1, <2>1, <2>2
  <2>4. Before(with) \in Seq([Sharing!Fields -> Nat]) /\ Len(Before(with)) = Len(with)
    BY <1>1, <2>2, <2>3 DEF Before
  <2>5. ASSUME NEW i \in 1..Len(with) PROVE Told(with[i], Before(with)[i])
    <3>1. CASE i <= Len(ts)
      BY <1>1, <2>1, <2>2, <2>3, <3>1 DEF Before, InStep
    <3>2. CASE i = Len(ts) + 1
      BY <1>1, <2>1, <2>2, <2>3, <3>2 DEF Before
    <3>3. i <= Len(ts) \/ i = Len(ts) + 1
      BY <1>1, <2>3
    <3> QED
      BY <3>1, <3>2, <3>3
  <2> QED
    BY <1>1, <2>1, <2>3, <2>4, <2>5 DEF InStep
<1> QED
  BY <1>3, <1>4

LEMMA TellIs ==
  ASSUME NEW ts, Len(ts) \in Nat, NEW p \in 1..Len(ts), NEW e, NEW dst
  PROVE  Sharing!Tell(ts, p, e, dst) = [Before(ts) EXCEPT ![p] = Telling(@, e, dst)]
BY DEF Sharing!Tell, Before, Telling

\* An event that the script may have.
LEMMA EventTypes ==
  ASSUME Known, NEW type \in {"ON", "MOD"}, NEW e \in Sharing!Events(type)
  PROVE  /\ e.src \in Nat /\ e.value \in Nat \cup {Sharing!None}
         /\ e.dst \in Destinations \cup {Sharing!Nowhere}
         /\ type = "ON" => e.dst \in Destinations
         /\ option = "TTL" /\ e.value # Sharing!None => e.dst # Sharing!Nowhere
BY SharingAssumption DEF Sharing!Events, Known

LEMMA ConnectedName ==
  ASSUME NEW e, NEW dst \in Destinations \cup {Sharing!Nowhere}
  PROVE  Sharing!Connected(e, dst) \in Names
BY DEF Sharing!Connected, Names

-------------------------------------------------------------------------------
(* The events.                                                             *)

\* The options stay the same, so that what is said of the next values is said.
LEMMA InStepNext ==
  ASSUME UNCHANGED option, InStep(transports', told')
  PROVE  InStep(transports, told)'
BY DEF InStep, Transport, Sharing!Fields, Told

\* A transport that is told an event, to which its last user or a new one has done
\* what leaves it as it was told.
LEMMA ToldOne ==
  ASSUME NEW ts, NEW values, InStep(ts, values), NEW p \in 1..Len(ts),
         NEW t \in Transport, Told(t, values[p]),
         NEW e, NEW dst, e.value \in Nat \cup {Sharing!None},
         e.value # Sharing!None => Sharing!FieldOf(e.dst) = Sharing!FieldOf(dst)
  PROVE  InStep([ts EXCEPT ![p] = Sharing!SetEventOptions(t, e)],
                  [values EXCEPT ![p] = Telling(@, e, dst)])
<1>1. values[p] \in [Sharing!Fields -> Nat]
  BY DEF InStep
<1> DEFINE v == Telling(values[p], e, dst)
           u == Sharing!SetEventOptions(t, e)
<1>2. u \in Transport /\ v \in [Sharing!Fields -> Nat] /\ Told(u, v)
  BY <1>1, OptionTold
<1> HIDE DEF u, v
<1>3. InStep([ts EXCEPT ![p] = u], [values EXCEPT ![p] = v])
  BY <1>2, ChangeOne
<1> QED
  BY <1>3 DEF u, v

LEMMA OnApplied ==
  ASSUME Known, Applied, NEW f \in Sharers, NEW e \in Sharing!Events("ON"), Sharing!On(f, e)
  PROVE  Applied'
<1> DEFINE ts == Sharing!With(transports, e.src, Sharing!Connected(e, e.dst), Sharing!InterfaceOf(e))
           p == Sharing!Place(transports, e.src, Sharing!Connected(e, e.dst), Sharing!InterfaceOf(e))
           first == Sharing!SetEventOptions(ts[p], e)
           opened == Sharing!Open(first, p)
           values == Before(ts)
           once == Telling(values[p], e, e.dst)
<1>1. /\ e.src \in Nat /\ e.value \in Nat \cup {Sharing!None} /\ e.dst \in Destinations
  BY EventTypes
<1>2. Sharing!Connected(e, e.dst) \in Names
  BY <1>1, ConnectedName
<1>3. option \in Options /\ InStep(transports, told) /\ Len(transports) \in Nat
  BY DEF Applied, InStep
<1>4. /\ InStep(ts, values) /\ p \in 1..Len(ts)
      /\ Len(ts) \in Nat /\ Len(ts) >= Len(transports)
  BY <1>1, <1>2, <1>3, GetTransport
<1>5. /\ transports' = [ts EXCEPT ![p] = Sharing!SetEventOptions(opened, e)]
      /\ flows' = [flows EXCEPT ![f] = [transport |-> p, dst |-> e.dst]]
      /\ told' = Sharing!Tell(ts, p, e, e.dst)
      /\ option' = option
  BY DEF Sharing!On
<1>6. told' = [values EXCEPT ![p] = Telling(@, e, e.dst)]
  BY <1>4, <1>5, TellIs
<1> HIDE DEF ts, p
<1>7. ts[p] \in Transport /\ values[p] \in [Sharing!Fields -> Nat] /\ Told(ts[p], values[p])
  BY <1>4 DEF InStep
<1>8. /\ first \in Transport /\ once \in [Sharing!Fields -> Nat] /\ Told(first, once)
  BY <1>1, <1>7, OptionTold
<1>9. opened \in Transport /\ Told(opened, once)
  <2>1. p \in Nat
    BY <1>4
  <2> HIDE DEF first, once
  <2> QED
    BY <1>3, <1>8, <2>1, OpenTold
<1>10. /\ Sharing!SetEventOptions(opened, e) \in Transport
       /\ Told(Sharing!SetEventOptions(opened, e), once)
  <2>1. Telling(once, e, e.dst) = once
    BY <1>7, TellingTwice
  <2> HIDE DEF opened, once
  <2> QED
    BY <1>1, <1>8, <1>9, <2>1, OptionTold
<1>11. InStep(transports', told')
  <2> DEFINE u == Sharing!SetEventOptions(opened, e)
  <2>1. told' = [values EXCEPT ![p] = once] /\ transports' = [ts EXCEPT ![p] = u]
    BY <1>5, <1>6
  <2> HIDE DEF u, once, values
  <2>2. InStep([ts EXCEPT ![p] = u], [values EXCEPT ![p] = once])
    BY <1>4, <1>8, <1>10, ChangeOne DEF u
  <2> QED
    BY <2>1, <2>2
<1>12. Len(transports') = Len(ts)
  BY <1>4, <1>5 DEF InStep
<1>13. flows' \in [Sharers -> [transport : 0..Len(transports'), dst : Destinations \cup {Sharing!Nowhere}]]
  BY <1>1, <1>3, <1>4, <1>5, <1>12 DEF Applied
<1> QED
  BY <1>3, <1>5, <1>11, <1>13, InStepNext DEF Applied

\* A user that leaves takes no option along.
LEMMA LeaveInStep ==
  ASSUME Applied, NEW old \in 1..Len(transports)
  PROVE  InStep([transports EXCEPT ![old] = Sharing!Close(@)], told)
<1>1. InStep(transports, told) /\ told \in Seq([Sharing!Fields -> Nat]) /\ Len(told) = Len(transports)
  BY DEF Applied, InStep
<1>2. /\ transports[old] \in Transport /\ told[old] \in [Sharing!Fields -> Nat]
      /\ Told(transports[old], told[old])
  BY <1>1 DEF InStep
<1> DEFINE t == Sharing!Close(transports[old])
<1>3. t \in Transport /\ Told(t, told[old])
  BY <1>2, CloseTold
<1> HIDE DEF t
<1>4. InStep([transports EXCEPT ![old] = t], [told EXCEPT ![old] = told[old]])
  BY <1>1, <1>2, <1>3, ChangeOne
<1>5. [told EXCEPT ![old] = told[old]] = told
  BY <1>1
<1> QED
  BY <1>4, <1>5 DEF t

LEMMA SameField ==
  ASSUME Known, NEW e \in Sharing!Events("MOD"), e.value # Sharing!None,
         NEW dst, e.dst # Sharing!Nowhere => dst = e.dst
  PROVE  Sharing!FieldOf(e.dst) = Sharing!FieldOf(dst)
<1>1. option = "TTL" => e.dst # Sharing!Nowhere
  BY EventTypes
<1> QED
  BY <1>1 DEF Sharing!FieldOf

\* The two ways of a MOD: a flow that changes its socket, and one that does not.
Moves(f, e, dst, ts, p) ==
  /\ transports' = [ts EXCEPT ![p] = Sharing!SetEventOptions(Sharing!Open(@, p), e)]
  /\ flows' = [flows EXCEPT ![f] = [transport |-> p, dst |-> dst]]
  /\ told' = Sharing!Tell(ts, p, e, dst)
  /\ option' = option

Stays(old, e, dst) ==
  /\ transports' = [transports EXCEPT ![old] = Sharing!SetEventOptions(@, e)]
  /\ told' = Sharing!Tell(transports, old, e, dst)
  /\ UNCHANGED <<flows, option>>

LEMMA MovesTells ==
  ASSUME NEW f, NEW e, NEW dst, NEW ts, Len(ts) \in Nat, NEW p \in 1..Len(ts),
         Moves(f, e, dst, ts, p)
  PROVE  told' = [Before(ts) EXCEPT ![p] = Telling(@, e, dst)]
<1>1. told' = Sharing!Tell(ts, p, e, dst)
  BY DEF Moves
<1> QED
  BY <1>1, TellIs

LEMMA MovesFlow ==
  ASSUME flows \in [Sharers -> [transport : 0..Len(transports), dst : Destinations \cup {Sharing!Nowhere}]],
         NEW f \in Sharers, NEW e, NEW dst \in Destinations \cup {Sharing!Nowhere}, NEW ts,
         Len(ts) \in Nat, Len(transports) \in Nat, NEW p \in 1..Len(ts),
         Moves(f, e, dst, ts, p), Len(ts) >= Len(transports)
  PROVE  flows' \in [Sharers -> [transport : 0..Len(ts), dst : Destinations \cup {Sharing!Nowhere}]]
<1>1. flows' = [flows EXCEPT ![f] = [transport |-> p, dst |-> dst]]
  BY DEF Moves
<1> QED
  BY <1>1

LEMMA MoveApplied ==
  ASSUME Known, Applied, NEW f \in Sharers, NEW e \in Sharing!Events("MOD"), flows[f].transport # 0,
         NEW port \in Nat,
         NEW dst \in Destinations \cup {Sharing!Nowhere}, e.dst # Sharing!Nowhere => dst = e.dst,
         NEW closed, closed = [transports EXCEPT ![flows[f].transport] = Sharing!Close(@)],
         NEW ts, ts = Sharing!With(closed, port, Sharing!Connected(e, dst), Sharing!InterfaceOf(e)),
         NEW p, p = Sharing!Place(closed, port, Sharing!Connected(e, dst), Sharing!InterfaceOf(e)),
         Moves(f, e, dst, ts, p)
  PROVE  Applied'
<1>1. option \in Options /\ InStep(transports, told) /\ Len(transports) \in Nat
      /\ flows[f].transport \in 1..Len(transports)
  BY DEF Applied, InStep
<1>2. InStep(closed, told) /\ Len(closed) = Len(transports)
  <2>1. InStep(closed, told)
    BY <1>1, LeaveInStep
  <2> QED
    BY <1>1, <2>1 DEF InStep
<1>3. Sharing!Connected(e, dst) \in Names
  BY ConnectedName
<1> DEFINE values == Before(ts)
           opened == Sharing!Open(ts[p], p)
<1>4. /\ InStep(ts, values) /\ p \in 1..Len(ts)
      /\ Len(ts) \in Nat /\ Len(ts) >= Len(transports)
  BY <1>2, <1>3, GetTransport
<1>5. told' = [values EXCEPT ![p] = Telling(@, e, dst)]
  <2>1. p \in 1..Len(ts) /\ Len(ts) \in Nat /\ Moves(f, e, dst, ts, p)
    BY <1>4
  <2> QED
    BY ONLY <2>1, MovesTells
<1>6. /\ ts[p] \in Transport /\ values[p] \in [Sharing!Fields -> Nat] /\ Told(ts[p], values[p])
      /\ p \in Nat
  BY <1>4, InStepAt
<1> HIDE DEF values
<1>7. opened \in Transport /\ Told(opened, values[p])
  BY <1>1, <1>6, OpenTold
<1>8. e.value \in Nat \cup {Sharing!None} /\ (e.value # Sharing!None => Sharing!FieldOf(e.dst) = Sharing!FieldOf(dst))
  BY EventTypes, SameField
<1>9. transports' = [ts EXCEPT ![p] = Sharing!SetEventOptions(opened, e)] /\ option' = option
  BY DEF Moves
<1> HIDE DEF opened
<1>10. InStep(transports', told')
  BY <1>4, <1>5, <1>7, <1>8, <1>9, ToldOne
<1>11. Len(transports') = Len(ts)
  BY <1>4, <1>9 DEF InStep
<1>12. flows' \in [Sharers -> [transport : 0..Len(transports'), dst : Destinations \cup {Sharing!Nowhere}]]
  BY <1>1, <1>4, <1>11, MovesFlow DEF Applied
<1> QED
  BY <1>1, <1>9, <1>10, <1>12, InStepNext DEF Applied

LEMMA StayApplied ==
  ASSUME Known, Applied, NEW old \in 1..Len(transports), NEW e \in Sharing!Events("MOD"),
         NEW dst, e.dst # Sharing!Nowhere => dst = e.dst,
         Stays(old, e, dst)
  PROVE  Applied'
<1>1. InStep(transports, told) /\ Len(transports) \in Nat
  BY DEF Applied, InStep
<1>2. transports[old] \in Transport /\ Told(transports[old], told[old])
  BY <1>1 DEF InStep
<1>3. Before(transports) = told
  BY <1>1 DEF Before, InStep
<1>4. /\ told' = [told EXCEPT ![old] = Telling(@, e, dst)]
      /\ transports' = [transports EXCEPT ![old] = Sharing!SetEventOptions(@, e)]
      /\ UNCHANGED <<flows, option>>
  BY <1>1, <1>3, TellIs DEF Stays
<1>5. e.value \in Nat \cup {Sharing!None} /\ (e.value # Sharing!None => Sharing!FieldOf(e.dst) = Sharing!FieldOf(dst))
  BY EventTypes, SameField
<1>6. InStep(transports', told')
  BY <1>1, <1>2, <1>4, <1>5, ToldOne
<1>7. Len(transports') = Len(transports)
  BY <1>1, <1>4, ChangedLength DEF InStep
<1> QED
  BY <1>4, <1>6, <1>7, InStepNext DEF Applied

LEMMA ModApplied ==
  ASSUME Known, Applied, NEW f \in Sharers, NEW e \in Sharing!Events("MOD"), flows[f].transport # 0,
         Sharing!Mod(f, e)
  PROVE  Applied'
<1> DEFINE old == flows[f].transport
           dst == IF e.dst = Sharing!Nowhere THEN flows[f].dst ELSE e.dst
           kept == IF e.connect /\ e.dst # Sharing!Nowhere THEN 0 ELSE transports[old].port
           port == IF e.src # 0 THEN e.src ELSE kept
           closed == [transports EXCEPT ![old] = Sharing!Close(@)]
           ts == Sharing!With(closed, port, Sharing!Connected(e, dst), Sharing!InterfaceOf(e))
           p == Sharing!Place(closed, port, Sharing!Connected(e, dst), Sharing!InterfaceOf(e))
<1>1. old \in 1..Len(transports) /\ transports[old] \in Transport
  BY DEF Applied, InStep
<1>2. dst \in Destinations \cup {Sharing!Nowhere} /\ (e.dst # Sharing!Nowhere => dst = e.dst)
  BY EventTypes DEF Applied
<1>3. port \in Nat
  <2>1. e.src \in Nat /\ transports[old].port \in Nat
    BY <1>1, EventTypes DEF Transport
  <2> QED
    BY <2>1
<1>4. CASE Moves(f, e, dst, ts, p)
  <2> HIDE DEF dst, port
  <2> QED
    BY <1>2, <1>3, <1>4, MoveApplied
<1>5. CASE Stays(old, e, dst)
  <2> HIDE DEF dst, old
  <2> QED
    BY <1>1, <1>2, <1>5, StayApplied
<1> QED
  BY <1>4, <1>5 DEF Sharing!Mod, Moves, Stays

LEMMA OffApplied ==
  ASSUME Applied, NEW f \in Sharers, Sharing!Off(f)
  PROVE  Applied'
<1>1. /\ flows[f].transport \in 1..Len(transports)
      /\ transports \in Seq(Transport) /\ UNCHANGED <<option, told>>
  BY DEF Applied, InStep, Sharing!Off
<1>2. InStep(transports', told')
  BY <1>1, LeaveInStep DEF Sharing!Off
<1>3. Len(transports') = Len(transports)
  BY <1>1 DEF Sharing!Off
<1>4. flows' \in [Sharers -> [transport : 0..Len(transports'), dst : Destinations \cup {Sharing!Nowhere}]]
  BY <1>1, <1>3 DEF Sharing!Off, Applied
<1> QED
  BY <1>1, <1>2, <1>4, InStepNext DEF Applied

LEMMA AppliedNext ==
  ASSUME Known, Applied, [Sharing!Next]_(Sharing!vars)
  PROVE  Applied'
<1>1. ASSUME NEW f \in Sharers, flows[f].transport = 0, NEW e \in Sharing!Events("ON"), Sharing!On(f, e)
      PROVE  Applied'
  BY <1>1, OnApplied
<1>2. ASSUME NEW f \in Sharers, flows[f].transport # 0, NEW e \in Sharing!Events("MOD"), Sharing!Mod(f, e)
      PROVE  Applied'
  BY <1>2, ModApplied
<1>3. ASSUME NEW f \in Sharers, Sharing!Off(f) PROVE Applied'
  BY <1>3, OffApplied
<1>4. CASE UNCHANGED Sharing!vars
  BY <1>4 DEF Sharing!vars, Applied, InStep, Transport, Sharing!Fields, Told
<1> QED
  BY <1>1, <1>2, <1>3, <1>4 DEF Sharing!Next

-------------------------------------------------------------------------------
\* Open, Listen, Close and JoinGroup: while sockets are found, shared and closed the
\* references of each are those of its flows, its groups and its LISTEN, and it is
\* open exactly while there are any.
THEOREM ReferencesKept ==
  ASSUME Proper
  PROVE  Spec => []ReferencesMatch
<1>1. Init => IInv
  BY InitHolds
<1>2. IInv /\ [Next]_vars => IInv'
  BY StepKeeps
<1>3. IInv => ReferencesMatch
  BY HoldsReferences
<1> QED
  BY <1>1, <1>2, <1>3, PTL DEF Spec

\* ProcessDrecEvent and DrecGroupList: a group that is joined stays joined until its
\* LEAVE, and a port is heard from its LISTEN to its IGNORE, whatever others do.
THEOREM HeardUntilGivenUp ==
  ASSUME Proper
  PROVE  Spec => []StillHeard
<1>1. Init => IInv
  BY InitHolds
<1>2. IInv /\ [Next]_vars => IInv'
  BY StepKeeps
<1>3. IInv => StillHeard
  BY HoldsJoined, HoldsHeard DEF StillHeard
<1> QED
  BY <1>1, <1>2, <1>3, PTL DEF Spec

\* MgenSocketTransport::SetEventOptions and Open: over sockets that are shared, closed
\* and opened again, an open one has the options its transport was told last.
THEOREM OptionsKept ==
  ASSUME Known
  PROVE  MCSpec => []ToldApplied
<1>1. MCInit => Applied
  BY AppliedInit DEF MCInit
<1>2. Applied /\ [References \/ Given]_<<part, vars, sharing>> => Applied'
  <2> SUFFICES ASSUME Applied, [References \/ Given]_<<part, vars, sharing>> PROVE Applied'
    OBVIOUS
  <2>1. [Sharing!Next]_(Sharing!vars)
    BY DEF References, Given, sharing, Sharing!vars
  <2> QED
    BY <2>1, AppliedNext
<1>3. Applied => ToldApplied
  BY DEF Applied, InStep, Told, ToldApplied, Sharing!ToldApplied
<1> QED
  BY <1>1, <1>2, <1>3, PTL DEF MCSpec
================================================================================
