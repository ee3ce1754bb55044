-------------------------- MODULE PendingQueueLemmas --------------------------
(***************************************************************************)
(* What the operations of the round robin of PendingQueue.tla return and   *)
(* preserve, for every set of flows: the facts the proofs about the        *)
(* transmission machine rest on.                                           *)
(***************************************************************************)
EXTENDS PendingQueue, SequenceTheorems, TLAPS

Round(q) == q \in Queues /\ WellFormed(q)

Elements(s) == {s[i] : i \in DOMAIN s}

Injective(s) == \A i, j \in DOMAIN s : s[i] = s[j] => i = j

\* Taking an element out of a list without repetitions leaves the others.
LEMMA WithoutProperties ==
  ASSUME NEW s \in Seq(Flow), NEW i \in 1..Len(s), Injective(s)
  PROVE  /\ Without(s, i) \in Seq(Flow)
         /\ Len(Without(s, i)) = Len(s) - 1
         /\ Injective(Without(s, i))
         /\ Elements(Without(s, i)) = Elements(s) \ {s[i]}
<1> DEFINE w == Without(s, i)
           e(j) == IF j < i THEN s[j] ELSE s[j + 1]
<1>1. Len(s) \in Nat /\ s \in [1..Len(s) -> Flow] /\ DOMAIN s = 1..Len(s)
  BY LenProperties
<1>2. Len(s) - 1 \in Nat
  BY <1>1
<1>3. \A j \in 1..(Len(s) - 1) : e(j) \in Flow
  BY <1>1
<1>4. w = [j \in 1..(Len(s) - 1) |-> e(j)]
  BY DEF Without
<1>5. w \in [1..(Len(s) - 1) -> Flow]
  BY <1>3, <1>4
<1>6. w \in Seq(Flow)
  BY <1>2, <1>5, SeqDef
<1>7. Len(w) = Len(s) - 1 /\ DOMAIN w = 1..(Len(s) - 1)
  BY <1>2, <1>5, <1>6, LenProperties
<1>8. \A j \in DOMAIN w : w[j] = IF j < i THEN s[j] ELSE s[j + 1]
  BY <1>4, <1>7
<1>9. Injective(w)
  BY <1>1, <1>7, <1>8 DEF Injective
<1>10. ASSUME NEW x \in Elements(w) PROVE x \in Elements(s) \ {s[i]}
  <2>1. PICK j \in DOMAIN w : x = w[j]
    BY <1>10 DEF Elements
  <2> QED
    BY <2>1, <1>1, <1>7, <1>8 DEF Elements, Injective
<1>11. ASSUME NEW x \in Elements(s) \ {s[i]} PROVE x \in Elements(w)
  <2>1. PICK j \in DOMAIN s : x = s[j] /\ j # i
    BY <1>11 DEF Elements
  <2>2. CASE j < i
    BY <2>1, <2>2, <1>1, <1>7, <1>8 DEF Elements
  <2>3. CASE j > i
    <3>1. j - 1 \in DOMAIN w /\ w[j - 1] = x
      BY <2>1, <2>3, <1>1, <1>7, <1>8
    <3> QED
      BY <3>1 DEF Elements
  <2> QED
    BY <2>1, <2>2, <2>3, <1>1
<1>12. Elements(w) = Elements(s) \ {s[i]}
  BY <1>10, <1>11
<1> QED
  BY <1>6, <1>7, <1>9, <1>12

\* The index of a flow in the list is a position the flow is at.
LEMMA IndexProperties ==
  ASSUME NEW q, q.list \in Seq(Flow), NEW f \in Queued(q)
  PROVE  Index(q, f) \in 1..Len(q.list) /\ q.list[Index(q, f)] = f
<1>1. DOMAIN q.list = 1..Len(q.list)
  BY LenProperties
<1>2. \E i \in DOMAIN q.list : q.list[i] = f
  BY DEF Queued
<1> QED
  BY <1>1, <1>2 DEF Index

\* The head of a nonempty list is in it.
LEMMA HeadProperties ==
  ASSUME NEW s \in Seq(Flow)
  PROVE  IF s = << >> THEN HeadOf(s) = NoFlow ELSE HeadOf(s) \in Elements(s)
<1>1. CASE s = << >>
  BY <1>1 DEF HeadOf
<1>2. CASE s # << >>
  <2>1. 1 \in DOMAIN s
    BY <1>2, EmptySeq, LenProperties
  <2> QED
    BY <1>2, <2>1 DEF HeadOf, Elements
<1> QED
  BY <1>1, <1>2

\* A list is empty when it has no elements.
LEMMA NoElements ==
  ASSUME NEW s \in Seq(Flow)
  PROVE  s = << >> <=> Elements(s) = {}
<1>1. DOMAIN s = 1..Len(s) /\ Len(s) \in Nat
  BY LenProperties
<1>2. s = << >> <=> Len(s) = 0
  BY EmptySeq
<1>3. CASE s = << >>
  BY <1>1, <1>2, <1>3 DEF Elements
<1>4. CASE s # << >>
  <2>1. 1 \in DOMAIN s
    BY <1>1, <1>2, <1>4
  <2>2. s[1] \in Elements(s)
    BY <2>1 DEF Elements
  <2> QED
    BY <1>4, <2>2
<1> QED
  BY <1>3, <1>4

\* A round robin put together from a list and a cursor.
LEMMA RoundIntro ==
  ASSUME NEW s \in Seq(Flow), NEW c \in Flow \cup {NoFlow}, Injective(s),
         IF s = << >> THEN c = NoFlow ELSE c \in Elements(s)
  PROVE  /\ Round([list |-> s, cur |-> c])
         /\ Queued([list |-> s, cur |-> c]) = Elements(s)
BY DEF Round, Queues, WellFormed, Injective, Elements, Queued

\* And what is known of one taken apart.
LEMMA RoundElim ==
  ASSUME NEW q, Round(q)
  PROVE  /\ q.list \in Seq(Flow)
         /\ q.cur \in Flow \cup {NoFlow}
         /\ Injective(q.list)
         /\ Queued(q) = Elements(q.list)
         /\ IF q.list = << >> THEN q.cur = NoFlow ELSE q.cur \in Elements(q.list)
         /\ q = [list |-> q.list, cur |-> q.cur]
         /\ Elements(q.list) \subseteq Flow
<1>1. q \in Queues /\ WellFormed(q)
  BY DEF Round
<1>2. Elements(q.list) \subseteq Flow
  BY <1>1, ElementOfSeq, LenProperties DEF Queues, Elements
<1> QED
  BY <1>1, <1>2 DEF Queues, WellFormed, Injective, Elements, Queued

-------------------------------------------------------------------------------
\* AppendFlow adds the flow and keeps the list a round robin.
LEMMA AppendFlowProperties ==
  ASSUME NEW q, Round(q), NEW f \in Flow
  PROVE  /\ Round(AppendFlow(q, f))
         /\ Queued(AppendFlow(q, f)) = Queued(q) \cup {f}
         /\ AppendFlow(q, f).list # << >>
<1> DEFINE s == q.list
           t == Append(s, f)
           c == IF s = << >> THEN f ELSE q.cur
<1>1. s \in Seq(Flow) /\ Injective(s) /\ Queued(q) = Elements(s)
  BY RoundElim
<1>2. DOMAIN s = 1..Len(s) /\ Len(s) \in Nat
  BY <1>1, LenProperties
<1>3. CASE f \in Queued(q)
  <2>1. s # << >>
    BY <1>1, <1>3, NoElements
  <2> QED
    BY <1>3, <2>1 DEF AppendFlow
<1>4. CASE f \notin Queued(q)
  <2>1. /\ t \in Seq(Flow)
        /\ Len(t) = Len(s) + 1
        /\ DOMAIN t = 1..(Len(s) + 1)
        /\ \A i \in 1..Len(s) : t[i] = s[i]
        /\ t[Len(s) + 1] = f
    BY <1>1, <1>2, LenProperties
  <2>2. Injective(t)
    BY <1>1, <1>2, <1>4, <2>1 DEF Injective, Elements
  <2>3. Elements(t) = Elements(s) \cup {f}
    <3>1. ASSUME NEW x \in Elements(t) PROVE x \in Elements(s) \cup {f}
      BY <3>1, <1>2, <2>1 DEF Elements
    <3>2. ASSUME NEW x \in Elements(s) PROVE x \in Elements(t)
      BY <3>2, <1>2, <2>1 DEF Elements
    <3>3. f \in Elements(t)
      BY <1>2, <2>1 DEF Elements
    <3> QED
      BY <3>1, <3>2, <3>3
  <2>4. t # << >>
    BY <2>1, <2>3, NoElements
  <2>5. c \in Flow \cup {NoFlow} /\ c \in Elements(t)
    BY <2>3, RoundElim
  <2>6. Round([list |-> t, cur |-> c]) /\ Queued([list |-> t, cur |-> c]) = Elements(t)
    BY <2>1, <2>2, <2>4, <2>5, RoundIntro
  <2>7. AppendFlow(q, f) = [list |-> t, cur |-> c]
    BY <1>4 DEF AppendFlow
  <2> HIDE DEF t, c
  <2> QED
    BY <1>1, <2>3, <2>4, <2>6, <2>7
<1> QED
  BY <1>3, <1>4

\* RemoveFlow takes the flow out, and nothing else.
LEMMA RemoveFlowProperties ==
  ASSUME NEW q, Round(q), NEW f
  PROVE  /\ Round(RemoveFlow(q, f))
         /\ Queued(RemoveFlow(q, f)) = Queued(q) \ {f}
<1> DEFINE s == q.list
           i == Index(q, f)
           w == Without(s, i)
           c == IF i > 1 /\ i = Len(s) THEN HeadOf(w)
                ELSE IF q.cur # f THEN q.cur
                ELSE IF i = 1 THEN HeadOf(w)
                ELSE s[i + 1]
<1>1. s \in Seq(Flow) /\ Injective(s) /\ Queued(q) = Elements(s)
  BY RoundElim
<1>2. DOMAIN s = 1..Len(s) /\ Len(s) \in Nat
  BY <1>1, LenProperties
<1>3. CASE f \notin Queued(q)
  BY <1>3 DEF RemoveFlow
<1>4. CASE f \in Queued(q)
  <2>1. i \in 1..Len(s) /\ s[i] = f
    BY <1>1, <1>4, IndexProperties
  <2>2. /\ w \in Seq(Flow) /\ Len(w) = Len(s) - 1
        /\ Injective(w) /\ Elements(w) = Elements(s) \ {f}
    BY <1>1, <2>1, WithoutProperties
  <2>3. Elements(w) \subseteq Flow
    BY <1>1, <2>2, RoundElim
  <2>4. IF w = << >> THEN HeadOf(w) = NoFlow ELSE HeadOf(w) \in Elements(w)
    BY <2>2, HeadProperties
  <2>5. w = << >> <=> Elements(w) = {}
    BY <2>2, NoElements
  <2>6. s # << >> /\ q.cur \in Elements(s)
    BY <1>1, <1>4, NoElements, RoundElim
  <2>7. ASSUME i # Len(s) PROVE s[i + 1] \in Elements(w)
    <3>1. i + 1 \in DOMAIN s /\ s[i + 1] # s[i]
      BY <1>1, <1>2, <2>1, <2>7 DEF Injective
    <3> QED
      BY <3>1, <2>1, <2>2 DEF Elements
  <2>8. c \in Flow \cup {NoFlow} /\ (IF w = << >> THEN c = NoFlow ELSE c \in Elements(w))
    <3>1. CASE i > 1 /\ i = Len(s)
      BY <3>1, <2>3, <2>4
    <3>2. CASE ~(i > 1 /\ i = Len(s)) /\ q.cur # f
      BY <3>2, <2>2, <2>3, <2>5, <2>6
    <3>3. CASE ~(i > 1 /\ i = Len(s)) /\ q.cur = f /\ i = 1
      BY <3>3, <2>3, <2>4
    <3>4. CASE ~(i > 1 /\ i = Len(s)) /\ q.cur = f /\ i # 1
      BY <3>4, <2>1, <2>3, <2>5, <2>7, <1>2
    <3> QED
      BY <3>1, <3>2, <3>3, <3>4
  <2>9. RemoveFlow(q, f) = [list |-> w, cur |-> c]
    BY <1>4 DEF RemoveFlow
  <2> HIDE DEF w, c
  <2> QED
    BY <1>1, <2>2, <2>8, <2>9, RoundIntro
<1> QED
  BY <1>3, <1>4

\* The flow after the one at the cursor is in the list.
LEMMA AfterProperties ==
  ASSUME NEW q, Round(q), q.list # << >>
  PROVE  /\ Index(q, q.cur) \in 1..Len(q.list)
         /\ q.list[Index(q, q.cur)] = q.cur
         /\ q.cur \in Queued(q)
         /\ After(q) # NoFlow => After(q) \in Queued(q) \ {q.cur}
<1> DEFINE s == q.list
           i == Index(q, q.cur)
<1>1. s \in Seq(Flow) /\ Injective(s) /\ Queued(q) = Elements(s) /\ q.cur \in Queued(q)
  BY RoundElim
<1>2. DOMAIN s = 1..Len(s) /\ Len(s) \in Nat
  BY <1>1, LenProperties
<1>3. i \in 1..Len(s) /\ s[i] = q.cur
  BY <1>1, IndexProperties
<1>4. CASE i < Len(s)
  <2>1. i + 1 \in DOMAIN s /\ s[i + 1] # s[i]
    BY <1>1, <1>2, <1>3, <1>4 DEF Injective
  <2>2. After(q) = s[i + 1]
    BY <1>4 DEF After
  <2> QED
    BY <1>1, <1>3, <2>1, <2>2 DEF Elements
<1>5. CASE ~(i < Len(s))
  BY <1>1, <1>3, <1>5 DEF After
<1> QED
  BY <1>4, <1>5

\* RemoveFromPendingList takes out the flow at the cursor.
LEMMA RemoveFromPendingListProperties ==
  ASSUME NEW q, Round(q), q.list # << >>
  PROVE  /\ Round(RemoveFromPendingList(q))
         /\ Queued(RemoveFromPendingList(q)) = Queued(q) \ {q.cur}
<1> DEFINE s == q.list
           i == Index(q, q.cur)
           w == Without(s, i)
           c == IF After(q) # NoFlow THEN After(q) ELSE HeadOf(w)
<1>1. s \in Seq(Flow) /\ Injective(s) /\ Queued(q) = Elements(s)
  BY RoundElim
<1>2. i \in 1..Len(s) /\ s[i] = q.cur
  BY AfterProperties
<1>3. After(q) # NoFlow => After(q) \in Queued(q) \ {q.cur}
  BY AfterProperties
<1>4. /\ w \in Seq(Flow)
      /\ Injective(w) /\ Elements(w) = Elements(s) \ {q.cur}
  BY <1>1, <1>2, WithoutProperties
<1>5. Elements(w) \subseteq Flow
  BY <1>4, RoundElim
<1>6. IF w = << >> THEN HeadOf(w) = NoFlow ELSE HeadOf(w) \in Elements(w)
  BY <1>4, HeadProperties
<1>7. w = << >> <=> Elements(w) = {}
  BY <1>4, NoElements
<1>8. RemoveFromPendingList(q) = [list |-> w, cur |-> c]
  BY DEF RemoveFromPendingList
<1>9. c \in Flow \cup {NoFlow} /\ (IF w = << >> THEN c = NoFlow ELSE c \in Elements(w))
  BY <1>1, <1>3, <1>4, <1>5, <1>6, <1>7
<1> HIDE DEF w, c
<1> QED
  BY <1>1, <1>4, <1>8, <1>9, RoundIntro

\* Advance moves the cursor to a flow in the list.
LEMMA AdvanceProperties ==
  ASSUME NEW q, Round(q), q.list # << >>
  PROVE  Round(Advance(q)) /\ Queued(Advance(q)) = Queued(q)
<1> DEFINE s == q.list
           c == IF After(q) # NoFlow THEN After(q) ELSE HeadOf(s)
<1>1. /\ s \in Seq(Flow) /\ Injective(s) /\ Queued(q) = Elements(s)
      /\ Elements(s) \subseteq Flow
  BY RoundElim
<1>2. After(q) # NoFlow => After(q) \in Elements(s)
  BY <1>1, AfterProperties
<1>3. HeadOf(s) \in Elements(s)
  BY <1>1, HeadProperties
<1>4. Advance(q) = [list |-> s, cur |-> c]
  BY RoundElim DEF Advance
<1>5. c \in Elements(s)
  BY <1>2, <1>3
<1> HIDE DEF c
<1> QED
  BY <1>1, <1>4, <1>5, RoundIntro

\* The empty list is a round robin.
LEMMA EmptyQueueProperties == Round(EmptyQueue) /\ Queued(EmptyQueue) = {}
<1>1. << >> \in Seq(Flow) /\ Elements(<< >>) = {}
  BY EmptySeq, NoElements
<1>2. Injective(<< >>)
  BY <1>1 DEF Injective, Elements
<1> QED
  BY <1>1, <1>2, RoundIntro DEF EmptyQueue
================================================================================
