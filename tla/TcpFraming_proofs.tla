--------------------------- MODULE TcpFraming_proofs ---------------------------
(***************************************************************************)
(* Proofs about TcpFraming.tla, for all sizes of buffers, fragments and    *)
(* messages and all ways the socket takes and brings them.  Of the sender: *)
(* fragments are cut so that none is too small, and buffers so that the    *)
(* checksum is never cut.  Of both ends: as long as the reads are cut      *)
(* where the code can go on, the receiver finds every fragment where the   *)
(* sender has begun it, has unpacked it when it ends, and its checksum     *)
(* agrees.                                                                 *)
(***************************************************************************)
EXTENDS TcpFraming, SequenceTheorems, WellFoundedInduction, NaturalsInduction, TLAPS

\* Nothing is being sent.
Resting ==
  /\ handler = "idle"
  /\ mgenMsgLen = 0
  /\ msgLen = 0
  /\ txMsgOffset = 0
  /\ txBufferPending = 0
  /\ txFragmentPending = 0

\* A buffer of a fragment of a message is, with at least a byte to go.
Sending ==
  /\ txBufferPending \in 1..BufferSize
  /\ txFragmentPending \in txBufferPending..msgLen
  /\ msgLen \in Fragment
  /\ txMsgOffset \in 1..mgenMsgLen
  /\ mgenMsgLen \in Nat
  /\ txSummed \in Int
  /\ FragmentsFit
  /\ ChecksumRoom

\* The inductive invariant: a buffer that is cut so that the rest has room for
\* the checksum needs a rest with that room to be cut from.
SenderInv == checksums \in BOOLEAN /\ (Resting \/ Sending)

\* A fragment is large enough for a length and a checksum, and leaves nothing,
\* or enough for another one.
LEMMA FragmentSizeProperties ==
  ASSUME NEW r \in Nat, r > LengthSize + ChecksumSize
  PROVE  /\ FragmentSize(r) \in Nat
         /\ FragmentSize(r) > LengthSize + ChecksumSize
         /\ FragmentSize(r) <= MaxFragSize
         /\ FragmentSize(r) <= r
         /\ r - FragmentSize(r) = 0 \/ r - FragmentSize(r) >= MinFragSize
BY TcpFramingAssumption DEF FragmentSize, LengthSize, ChecksumSize

\* What is packed first fits the buffer and leaves nothing, or a rest in which
\* there is room for the checksum.
LEMMA FirstBufferProperties ==
  ASSUME NEW p \in Nat, p > LengthSize + ChecksumSize, checksums \in BOOLEAN
  PROVE  /\ FirstBuffer(p) \in 1..BufferSize
         /\ FirstBuffer(p) <= p
         /\ checksums /\ FirstBuffer(p) # p => p - FirstBuffer(p) >= ChecksumSize
BY TcpFramingAssumption DEF FirstBuffer, LengthSize, ChecksumSize

\* So does what is packed next, if there was room before.
LEMMA NextBufferProperties ==
  ASSUME NEW p \in Nat, p > 0, checksums \in BOOLEAN, checksums => p >= ChecksumSize
  PROVE  /\ NextBuffer(p) \in 1..BufferSize
         /\ NextBuffer(p) <= p
         /\ checksums /\ NextBuffer(p) # p => p - NextBuffer(p) >= ChecksumSize
BY TcpFramingAssumption DEF NextBuffer, ChecksumSize

\* The first buffer of a fragment is one that a message is sent in.
LEMMA StartFragmentSends ==
  ASSUME checksums \in BOOLEAN, UNCHANGED checksums,
         NEW n \in Nat, NEW o \in Nat, n - o > LengthSize + ChecksumSize,
         mgenMsgLen' = n, StartFragment(n, o)
  PROVE  Sending'
<1> DEFINE p == FragmentSize(n - o)
           b == FirstBuffer(p)
<1>1. n - o \in Nat
  BY DEF LengthSize, ChecksumSize
<1>2. /\ p \in Nat
      /\ p > LengthSize + ChecksumSize
      /\ p <= MaxFragSize
      /\ p <= n - o
      /\ n - o - p = 0 \/ n - o - p >= MinFragSize
  BY <1>1, FragmentSizeProperties
<1>3. /\ b \in 1..BufferSize
      /\ b <= p
      /\ checksums /\ b # p => p - b >= ChecksumSize
  BY <1>2, FirstBufferProperties
<1>4. /\ msgLen' = p
      /\ txFragmentPending' = p
      /\ txBufferPending' = b
      /\ txMsgOffset' = o + b
      /\ txSummed' = Summed(b, p)
  BY DEF StartFragment
<1> HIDE DEF p, b
<1>5. b \in Nat /\ b >= 1
  BY <1>3, TcpFramingAssumption
<1>6. FragmentsFit'
  BY <1>2, <1>4, <1>5 DEF FragmentsFit
<1>7. ChecksumRoom'
  BY <1>2, <1>3, <1>4, <1>5 DEF ChecksumRoom, Summed, ChecksumSize
<1>8. txSummed' \in Int
  BY <1>2, <1>4, <1>5 DEF Summed, ChecksumSize
<1>9. txMsgOffset' \in 1..n
  BY <1>2, <1>3, <1>4, <1>5
<1>10. p \in b..p /\ p \in Fragment
  BY <1>2, <1>3, <1>5, TcpFramingAssumption DEF Fragment
<1> QED
  BY <1>3, <1>4, <1>6, <1>7, <1>8, <1>9, <1>10 DEF Sending

LEMMA SenderInit == Init => SenderInv
BY DEF Init, SenderInv, Resting

\* A message that is taken is being sent.
LEMMA SendMessageSends ==
  ASSUME SenderInv, NEW n \in Lengths, SendMessage(n)
  PROVE  SenderInv'
<1>1. n \in Nat /\ n - 0 > LengthSize + ChecksumSize
  BY TcpFramingAssumption DEF LengthSize, ChecksumSize
<1>2. Sending'
  BY <1>1, StartFragmentSends DEF SenderInv, SendMessage
<1> QED
  BY <1>2 DEF SenderInv, SendMessage

\* What the socket has not taken goes on as the code has cut it.
LEMMA WriteSends ==
  ASSUME SenderInv, NEW k \in 1..txBufferPending, Write(k)
  PROVE  SenderInv'
<1> DEFINE b == txBufferPending - k
           p == txFragmentPending - k
<1>1. Sending
  BY DEF SenderInv, Resting, Write
<1>2. /\ txBufferPending \in Nat /\ k \in Nat /\ k >= 1 /\ k <= txBufferPending
      /\ txBufferPending <= BufferSize
      /\ txFragmentPending \in Nat /\ txFragmentPending >= txBufferPending
      /\ msgLen \in Nat /\ txFragmentPending <= msgLen
      /\ txMsgOffset \in Nat /\ txMsgOffset <= mgenMsgLen
      /\ mgenMsgLen \in Nat /\ txSummed \in Int /\ txMsgOffset >= 1
      /\ BufferSize \in Nat
  BY <1>1, TcpFramingAssumption DEF Sending, Fragment
<1>3. b \in Nat /\ p \in Nat /\ b <= p
  BY <1>2
<1>4. checksums \in BOOLEAN /\ UNCHANGED checksums
  BY DEF SenderInv, Write
<1>5. CASE b > 0 /\ txBufferPending' = b /\ txFragmentPending' = p
           /\ UNCHANGED <<mgenMsgLen, msgLen, txMsgOffset, txSummed>>
  <2>1. txBufferPending' \in 1..BufferSize /\ txFragmentPending' \in txBufferPending'..msgLen'
    BY <1>2, <1>3, <1>5
  <2>2. FragmentsFit' /\ ChecksumRoom'
    BY <1>1, <1>2, <1>3, <1>4, <1>5 DEF Sending, FragmentsFit, ChecksumRoom, ChecksumSize
  <2> QED
    BY <1>1, <1>4, <1>5, <2>1, <2>2 DEF Sending, SenderInv
<1>6. CASE /\ b = 0 /\ p > 0
           /\ txBufferPending' = NextBuffer(p)
           /\ txFragmentPending' = p
           /\ txMsgOffset' = txMsgOffset + NextBuffer(p)
           /\ txSummed' = txSummed + Summed(NextBuffer(p), p)
           /\ UNCHANGED <<mgenMsgLen, msgLen>>
  <2>1. /\ p = txFragmentPending - txBufferPending
        /\ checksums => p >= ChecksumSize /\ txSummed = msgLen - p
    BY <1>1, <1>2, <1>6 DEF Sending, ChecksumRoom
  <2>2. /\ NextBuffer(p) \in 1..BufferSize
        /\ NextBuffer(p) <= p
        /\ checksums /\ NextBuffer(p) # p => p - NextBuffer(p) >= ChecksumSize
    BY <1>3, <1>4, <1>6, <2>1, NextBufferProperties
  <2>3. /\ mgenMsgLen - txMsgOffset - p = 0 \/ mgenMsgLen - txMsgOffset - p >= MinFragSize
    BY <1>1, <2>1 DEF Sending, FragmentsFit
  <2> DEFINE c == NextBuffer(p)
  <2>4. c \in Nat /\ c >= 1 /\ c <= p /\ p <= msgLen
    BY <1>2, <1>3, <2>2
  <2> HIDE DEF c
  <2>5. /\ txBufferPending' = c /\ txFragmentPending' = p /\ msgLen' = msgLen
        /\ txMsgOffset' = txMsgOffset + c /\ mgenMsgLen' = mgenMsgLen
        /\ txSummed' = txSummed + Summed(c, p)
    BY <1>6 DEF c
  <2>6. checksums /\ c # p => p - c >= ChecksumSize
    BY <2>2 DEF c
  <2> HIDE DEF p, b
  <2>7. FragmentsFit'
    BY <1>2, <1>3, <2>3, <2>4, <2>5, TcpFramingAssumption DEF FragmentsFit
  <2>8. ChecksumRoom'
    BY <1>2, <1>3, <1>4, <2>1, <2>4, <2>5, <2>6 DEF ChecksumRoom, Summed, ChecksumSize
  <2>9. txMsgOffset' \in 1..mgenMsgLen'
    BY <1>2, <1>3, <2>3, <2>4, <2>5, TcpFramingAssumption
  <2>10. txSummed' \in Int
    BY <1>2, <1>3, <2>4, <2>5 DEF Summed, ChecksumSize
  <2>11. txFragmentPending' \in txBufferPending'..msgLen'
    BY <1>2, <1>3, <2>4, <2>5
  <2>12. txBufferPending' \in 1..BufferSize
    BY <2>2, <2>5 DEF c
  <2> QED
    BY <1>1, <1>4, <2>5, <2>7, <2>8, <2>9, <2>10, <2>11, <2>12 DEF Sending, SenderInv
<1>7. CASE /\ b = 0 /\ p = 0 /\ txMsgOffset # mgenMsgLen
           /\ StartFragment(mgenMsgLen, txMsgOffset)
           /\ UNCHANGED mgenMsgLen
  <2>1. mgenMsgLen - txMsgOffset >= MinFragSize
    BY <1>1, <1>2, <1>7 DEF Sending, FragmentsFit
  <2>2. mgenMsgLen - txMsgOffset > LengthSize + ChecksumSize
    BY <1>2, <2>1, TcpFramingAssumption DEF LengthSize, ChecksumSize
  <2>3. Sending'
    BY <1>2, <1>4, <1>7, <2>2, StartFragmentSends
  <2> QED
    BY <1>4, <2>3 DEF SenderInv
<1>8. CASE ResetTx /\ handler' = "idle"
  BY <1>4, <1>8 DEF ResetTx, SenderInv, Resting
<1> QED
  BY <1>3, <1>5, <1>6, <1>7, <1>8 DEF Write

LEMMA SenderNext == SenderInv /\ [Next]_vars => SenderInv'
<1> SUFFICES ASSUME SenderInv, [Next]_vars PROVE SenderInv'
  OBVIOUS
<1>1. ASSUME UNCHANGED <<checksums, handler, txVars>> PROVE SenderInv'
  BY <1>1 DEF SenderInv, Resting, Sending, FragmentsFit, ChecksumRoom, txVars
<1>2. ASSUME NEW n \in Lengths, SendMessage(n) PROVE SenderInv'
  BY <1>2, SendMessageSends
<1>3. ASSUME NEW k \in 1..txBufferPending, Write(k) PROVE SenderInv'
  BY <1>3, WriteSends
<1>4. ASSUME UNCHANGED <<checksums, txVars>>, handler' = "idle" PROVE SenderInv'
  BY <1>4 DEF SenderInv, Resting, Sending, FragmentsFit, ChecksumRoom, txVars
<1>5. ASSUME UNCHANGED checksums, ResetTx, handler' = "idle" PROVE SenderInv'
  BY <1>5 DEF SenderInv, Resting, ResetTx
<1>6. CASE OutputReady
  <2>1. CASE txBufferPending > 0
    <3>1. Sending
      BY <2>1 DEF SenderInv, Resting
    <3> QED
      BY <1>6, <3>1 DEF OutputReady, SenderInv, Sending, FragmentsFit, ChecksumRoom, txVars
  <2>2. CASE ~(txBufferPending > 0)
    BY <1>4, <1>6, <2>2 DEF OutputReady
  <2> QED
    BY <2>1, <2>2
<1>7. CASE WouldBlock
  BY <1>4, <1>7 DEF WouldBlock
<1>8. CASE WriteFails
  BY <1>4, <1>5, <1>8 DEF WriteFails
<1>9. CASE OnDisconnect
  BY <1>5, <1>9 DEF OnDisconnect
<1>10. CASE \E k \in 1..BufferSize : Read(k)
  BY <1>1, <1>10 DEF Read
<1>11. CASE Break
  BY <1>1, <1>11 DEF Break
<1>12. CASE Open
  BY <1>1, <1>12 DEF Open
<1>13. CASE UNCHANGED vars
  BY <1>1, <1>13 DEF vars
<1> QED
  BY <1>2, <1>3, <1>6, <1>7, <1>8, <1>9, <1>10, <1>11, <1>12, <1>13 DEF Next

\* Whatever the sizes, what is left of a message after the fragment being sent
\* is never too small to be a fragment, and the checksum of a fragment is never
\* cut by the end of a buffer: GetNextTxFragmentSize, GetNextTxFragment and
\* SetupNextTxBuffer make room for it in time.
THEOREM SenderCuts == Spec => [](FragmentsFit /\ ChecksumRoom)
<1>1. Init => SenderInv
  BY SenderInit
<1>2. SenderInv /\ [Next]_vars => SenderInv'
  BY SenderNext
<1>3. SenderInv => FragmentsFit /\ ChecksumRoom
  BY DEF SenderInv, Resting, Sending, FragmentsFit, ChecksumRoom
<1> QED
  BY <1>1, <1>2, <1>3, PTL DEF Spec
-------------------------------------------------------------------------------
(* Sums.                                                                   *)

\* f has the sums of the first n numbers of s, for n up to m.
Sums(s, m, f) ==
  /\ f \in [0..m -> Int]
  /\ f[0] = 0
  /\ \A n \in 1..m : f[n] = f[n - 1] + s[n]

\* Of a set of numbers that is not empty one is the least.
LEMMA LeastOf ==
  ASSUME NEW T, T \subseteq Nat, T # {}
  PROVE  \E x \in T : \A y \in T : x <= y
<1> DEFINE Less == OpToRel(<, Nat)
<1>1. IsWellFoundedOn(Less, Nat)
  BY NatLessThanWellFounded
<1>2. \A x, y \in Nat : y < x => <<y, x>> \in Less
  BY DEF OpToRel
<1> HIDE DEF Less
<1>3. PICK x \in T : \A y \in T : ~(<<y, x>> \in Less)
  BY <1>1, WFMin
<1>4. \A y \in T : x \in Nat /\ y \in Nat /\ ~(y < x)
  BY <1>2, <1>3
<1>5. \A y \in T : x <= y
  BY <1>4
<1> QED
  BY <1>3, <1>5

\* There are sums of the numbers of every sequence.
LEMMA SumsExist ==
  ASSUME NEW s \in Seq(Int)
  PROVE  \E f : Sums(s, Len(s), f)
<1> DEFINE T == {m \in 0..Len(s) : ~\E f : Sums(s, m, f)}
<1>1. Len(s) \in Nat /\ \A n \in 1..Len(s) : s[n] \in Int
  BY LenProperties
<1>2. SUFFICES ASSUME T # {} PROVE FALSE
  BY <1>1
<1>3. PICK m \in T : \A y \in T : m <= y
  <2>1. T \subseteq Nat
    BY <1>1
  <2> HIDE DEF T
  <2> QED
    BY <1>2, <2>1, LeastOf
<1>4. m \in 0..Len(s) /\ ~\E f : Sums(s, m, f)
  BY <1>3
<1>5. m # 0
  <2>1. Sums(s, 0, [n \in 0..0 |-> 0])
    BY DEF Sums
  <2> QED
    BY <1>4, <2>1
<1>6. m - 1 \in 0..Len(s) /\ m - 1 < m /\ m \in 1..Len(s)
  BY <1>1, <1>4, <1>5
<1>7. m - 1 \notin T
  BY <1>3, <1>4, <1>6
<1>8. PICK f : Sums(s, m - 1, f)
  BY <1>6, <1>7
<1> DEFINE g == [n \in 0..m |-> IF n = m THEN f[m - 1] + s[m] ELSE f[n]]
<1>9. Sums(s, m, g)
  <2>1. f \in [0..(m - 1) -> Int] /\ f[0] = 0 /\ \A n \in 1..(m - 1) : f[n] = f[n - 1] + s[n]
    BY <1>8 DEF Sums
  <2>2. \A n \in 0..m : n # m => n \in 0..(m - 1)
    BY <1>4
  <2>3. f[m - 1] \in Int /\ s[m] \in Int
    BY <1>1, <1>4, <1>6, <2>1
  <2>4. g \in [0..m -> Int]
    BY <2>1, <2>2, <2>3
  <2>5. g[0] = 0
    BY <1>4, <1>5, <2>1
  <2>6. ASSUME NEW n \in 1..m PROVE g[n] = g[n - 1] + s[n]
    <3>1. n \in 0..m /\ n - 1 \in 0..m /\ n - 1 # m
      BY <1>4, <2>6
    <3>2. CASE n = m
      BY <3>1, <3>2
    <3>3. CASE n # m
      <4>1. n \in 1..(m - 1)
        BY <1>4, <2>6, <3>3
      <4> QED
        BY <2>1, <3>1, <3>3, <4>1
    <3> QED
      BY <3>2, <3>3
  <2> QED
    BY <2>4, <2>5, <2>6 DEF Sums
<1> QED
  BY <1>4, <1>9

\* There is one function of sums, and Total takes its last value.
LEMMA TotalIs ==
  ASSUME NEW s \in Seq(Int), NEW f, Sums(s, Len(s), f)
  PROVE  Total(s) = f[Len(s)]
<1> DEFINE m == Len(s)
           step(a, n) == IF n = 0 THEN 0 ELSE a[n - 1] + s[n]
           sum == CHOOSE a : a = [n \in 0..m |-> step(a, n)]
<1>1. m \in Nat
  BY LenProperties
<1>2. Total(s) = sum[m]
  BY DEF Total
<1>3. f \in [0..m -> Int] /\ f[0] = 0 /\ \A n \in 1..m : f[n] = f[n - 1] + s[n]
  BY DEF Sums
<1> HIDE DEF m
<1>4. f = [n \in 0..m |-> step(f, n)]
  <2>1. ASSUME NEW n \in 0..m PROVE f[n] = step(f, n)
    <3>1. n # 0 => n \in 1..m
      BY <1>1
    <3> QED
      BY <1>3, <3>1
  <2> QED
    BY <1>3, <2>1
<1>5. sum = [n \in 0..m |-> step(sum, n)]
  BY <1>4
<1> HIDE DEF sum
<1>6. \A n \in 0..m : sum[n] = step(sum, n) /\ f[n] = step(f, n)
  BY <1>4, <1>5
<1>7. \A n \in 0..m : sum[n] = f[n]
  <2> DEFINE T == {n \in 0..m : sum[n] # f[n]}
  <2>1. SUFFICES ASSUME T # {} PROVE FALSE
    OBVIOUS
  <2>2. PICK n \in T : \A y \in T : n <= y
    <3>1. T \subseteq Nat
      BY <1>1
    <3> HIDE DEF T
    <3> QED
      BY <2>1, <3>1, LeastOf
  <2>3. n \in 0..m /\ sum[n] # f[n]
    BY <2>2
  <2>4. n # 0
    BY <1>6, <2>3
  <2>5. n - 1 \in 0..m /\ n - 1 < n /\ n \in Int
    BY <1>1, <2>3, <2>4
  <2>6. n - 1 \notin T
    BY <2>2, <2>5
  <2>7. sum[n - 1] = f[n - 1]
    BY <2>5, <2>6
  <2> QED
    BY <1>6, <2>3, <2>4, <2>7
<1> QED
  BY <1>1, <1>2, <1>7 DEF m

\* The sum of a sequence, of a longer and of a shorter one.
LEMMA TotalProperties ==
  ASSUME NEW s \in Seq(Int)
  PROVE  /\ Total(s) \in Int
         /\ Total(<< >>) = 0
         /\ \A x \in Int : Total(Append(s, x)) = Total(s) + x
         /\ s # << >> => Total(s) = Head(s) + Total(Tail(s))
<1>1. Len(s) \in Nat /\ \A n \in 1..Len(s) : s[n] \in Int
  BY LenProperties
<1>2. PICK f : Sums(s, Len(s), f)
  BY SumsExist
<1>3. /\ f \in [0..Len(s) -> Int] /\ f[0] = 0
      /\ \A n \in 1..Len(s) : f[n] = f[n - 1] + s[n]
      /\ Total(s) = f[Len(s)]
  BY <1>2, TotalIs DEF Sums
<1>4. Total(s) \in Int
  BY <1>1, <1>3
<1>5. Total(<< >>) = 0
  <2>1. << >> \in Seq(Int) /\ Len(<< >>) = 0
    BY EmptySeq
  <2>2. Sums(<< >>, 0, [n \in 0..0 |-> 0])
    BY DEF Sums
  <2>3. Total(<< >>) = [n \in 0..0 |-> 0][0]
    BY <2>1, <2>2, TotalIs
  <2> QED
    BY <2>3
<1>6. ASSUME NEW x \in Int PROVE Total(Append(s, x)) = Total(s) + x
  <2> DEFINE m == Len(s)
             t == Append(s, x)
             g == [n \in 0..(m + 1) |-> IF n = m + 1 THEN f[m] + x ELSE f[n]]
  <2>1. t \in Seq(Int) /\ Len(t) = m + 1 /\ t[m + 1] = x /\ \A n \in 1..m : t[n] = s[n]
    BY AppendProperties
  <2> HIDE DEF t
  <2>2. m \in Nat /\ f[m] \in Int
    BY <1>1, <1>3
  <2>3. g \in [0..(m + 1) -> Int] /\ g[0] = 0
    <3>1. \A n \in 0..(m + 1) : n # m + 1 => n \in 0..m
      BY <2>2
    <3>2. f \in [0..m -> Int] /\ f[0] = 0
      BY <1>3
    <3> HIDE DEF m
    <3> QED
      BY <2>2, <3>1, <3>2
  <2>4. ASSUME NEW n \in 1..(m + 1) PROVE g[n] = g[n - 1] + t[n]
    <3>1. n \in 0..(m + 1) /\ n - 1 \in 0..(m + 1) /\ n - 1 # m + 1
      BY <2>2, <2>4
    <3>2. CASE n = m + 1
      BY <2>1, <2>2, <3>1, <3>2
    <3>3. CASE n # m + 1
      <4>1. n \in 1..m
        BY <2>2, <2>4, <3>3
      <4>2. f[n] = f[n - 1] + s[n] /\ t[n] = s[n]
        BY <1>3, <2>1, <4>1
      <4> QED
        BY <3>1, <3>3, <4>2
    <3> QED
      BY <3>2, <3>3
  <2>5. g[m + 1] = f[m] + x
    BY <2>2
  <2>6. Sums(t, m + 1, g)
    BY <2>3, <2>4 DEF Sums
  <2> HIDE DEF g
  <2>7. Total(t) = g[m + 1]
    BY <2>1, <2>6, TotalIs
  <2> QED
    BY <1>3, <2>5, <2>7 DEF t
<1>7. ASSUME s # << >> PROVE Total(s) = Head(s) + Total(Tail(s))
  <2> DEFINE t == Tail(s)
             m == Len(s)
  <2>1. /\ t \in Seq(Int) /\ Len(t) = m - 1 /\ Head(s) = s[1]
        /\ \A n \in 1..(m - 1) : t[n] = s[n + 1]
    BY <1>7, HeadTailProperties
  <2>2. m \in Nat /\ m >= 1
    BY <1>1, <1>7, EmptySeq
  <2> HIDE DEF t
  <2>3. PICK g : Sums(t, m - 1, g)
    BY <2>1, SumsExist
  <2>4. /\ g \in [0..(m - 1) -> Int] /\ g[0] = 0
        /\ \A n \in 1..(m - 1) : g[n] = g[n - 1] + t[n]
        /\ Total(t) = g[m - 1]
    BY <2>1, <2>3, TotalIs DEF Sums
  <2> DEFINE h == [n \in 0..m |-> IF n = 0 THEN 0 ELSE s[1] + g[n - 1]]
  <2>5. s[1] \in Int
    BY <1>1, <2>2
  <2>6. h \in [0..m -> Int] /\ h[0] = 0
    <3>1. \A n \in 0..m : n # 0 => n - 1 \in 0..(m - 1)
      BY <2>2
    <3> HIDE DEF m
    <3>2. \A n \in 0..m : n # 0 => g[n - 1] \in Int
      BY <2>4, <3>1
    <3> QED
      BY <2>2, <2>5, <3>2
  <2>7. ASSUME NEW n \in 1..m PROVE h[n] = h[n - 1] + s[n]
    <3>1. n \in 0..m /\ n # 0 /\ n - 1 \in 0..m
      BY <2>2, <2>7
    <3>2. h[n] = s[1] + g[n - 1]
      BY <3>1
    <3>3. CASE n = 1
      <4>1. h[n - 1] = 0 /\ g[n - 1] = 0
        BY <2>4, <2>6, <3>3
      <4> QED
        BY <2>5, <3>2, <3>3, <4>1
    <3>4. CASE n # 1
      <4>1. n - 1 \in 1..(m - 1) /\ (n - 1) + 1 = n /\ n - 1 # 0
        BY <2>2, <2>7, <3>4
      <4>2. h[n - 1] = s[1] + g[(n - 1) - 1]
        BY <3>1, <4>1
      <4>3. g[n - 1] = g[(n - 1) - 1] + s[n]
        BY <2>1, <2>4, <4>1
      <4>4. (n - 1) - 1 \in 0..(m - 1) /\ n \in 1..m
        BY <2>2, <2>7, <4>1
      <4>5. g[(n - 1) - 1] \in Int /\ s[n] \in Int
        BY <1>1, <2>4, <4>4
      <4> QED
        BY <2>5, <3>2, <4>2, <4>3, <4>5
    <3> QED
      BY <3>3, <3>4
  <2>8. h[m] = s[1] + g[m - 1]
    BY <2>2
  <2>9. Sums(s, m, h)
    BY <2>6, <2>7 DEF Sums
  <2> HIDE DEF h
  <2>10. Total(s) = h[m]
    BY <2>9, TotalIs
  <2> QED
    BY <2>1, <2>4, <2>8, <2>10 DEF t
<1> QED
  BY <1>4, <1>5, <1>6, <1>7
-------------------------------------------------------------------------------
(* The receiver.                                                           *)

\* The lengths a fragment can have.
Sizes == {n \in Nat : n > LengthSize + ChecksumSize /\ n <= MaxFragSize}

\* What the stream holds: fragments, and of their bytes those that are on their
\* way.
StreamInv ==
  /\ link \in {"up", "broken", "down"}
  /\ link = "down" => Resting
  /\ stream \in Seq(Sizes)
  /\ inFlight \in Nat
  /\ link # "up" => stream = << >> /\ inFlight = 0
  /\ Accounted

\* Nothing of a fragment has been read.
Waiting ==
  /\ rxMsgLen = 0
  /\ rxMsgIndex = 0
  /\ rxFragmentPending = 0
  /\ rxSummed = 0
  /\ rxBufferIndex = 0
  /\ unpacked = FALSE

\* The length of the first fragment has been read, and not all of the rest.
Receiving ==
  /\ link = "up"
  /\ stream # << >>
  /\ rxMsgLen = Head(stream)
  /\ rxMsgIndex \in Nat
  /\ rxMsgIndex >= LengthSize
  /\ rxMsgIndex < rxMsgLen
  /\ rxFragmentPending = rxMsgLen - rxMsgIndex
  /\ unpacked \in BOOLEAN
  /\ rxMsgIndex >= BufferSize => unpacked

\* While every read could be used, what is not checksum is under the checksum
\* and the rest is in rx_checksum_buffer.
Told ==
  IF rxMsgIndex + ChecksumSize > rxMsgLen
  THEN /\ rxSummed = rxMsgLen - ChecksumSize
       /\ rxBufferIndex = rxMsgIndex + ChecksumSize - rxMsgLen
  ELSE rxSummed = rxMsgIndex /\ rxBufferIndex = 0

ReaderInv ==
  /\ Waiting \/ Receiving
  /\ verdict \in {"good", "overrun"}
  /\ verdict = "overrun" => "checksum" \in Cuts
  /\ verdict = "good" /\ Receiving => Told

\* The inductive invariant: what the sender has begun of the fragment it is
\* sending, what is on its way and what the receiver has read make up the
\* fragments of the stream, and the receiver is at a byte of the first of them.
FramingInv == SenderInv /\ StreamInv /\ ReaderInv

\* A number that fits is not changed by its width.
LEMMA Width ==
  ASSUME NEW n \in Nat, n < UINT16
  PROVE  n % UINT16 = n
BY DEF UINT16

\* The sum of the fragments of a stream, and what becomes of it when one is
\* begun and when one has been read.
LEMMA StreamTotal ==
  ASSUME NEW s \in Seq(Sizes)
  PROVE  /\ Total(s) \in Int
         /\ Total(<< >>) = 0
         /\ \A x \in Sizes : Total(Append(s, x)) = Total(s) + x /\ Append(s, x) \in Seq(Sizes)
         /\ s # << >> => /\ Total(s) = Head(s) + Total(Tail(s))
                         /\ Head(s) \in Sizes
                         /\ Tail(s) \in Seq(Sizes)
<1>1. Sizes \subseteq Int
  BY DEF Sizes
<1>2. s \in Seq(Int)
  BY <1>1, SeqMonotonic
<1> QED
  BY <1>1, <1>2, TotalProperties, HeadTailProperties, AppendProperties

\* What the sender has begun of its fragment is counted once.
LEMMA SenderPending ==
  ASSUME SenderInv
  PROVE  txFragmentPending \in Nat
BY TcpFramingAssumption DEF SenderInv, Resting, Sending, Fragment

\* A fragment that is begun is at the end of the stream, if there is one.
LEMMA StartFragmentStreams ==
  ASSUME NEW n \in Nat, NEW o \in Nat, n - o > LengthSize + ChecksumSize,
         StreamInv, StartFragment(n, o)
  PROVE  /\ txFragmentPending' \in Sizes
         /\ stream' \in Seq(Sizes)
         /\ link = "up" => Total(stream') = Total(stream) + txFragmentPending'
         /\ link = "up" => stream' = Append(stream, txFragmentPending')
         /\ link # "up" => stream' = << >>
<1> DEFINE p == FragmentSize(n - o)
<1>1. n - o \in Nat
  BY DEF LengthSize, ChecksumSize
<1>2. p \in Nat /\ p > LengthSize + ChecksumSize /\ p <= MaxFragSize
  BY <1>1, FragmentSizeProperties
<1>3. p \in Sizes
  BY <1>2 DEF Sizes
<1>4. txFragmentPending' = p /\ stream' = IF link = "up" THEN Append(stream, p) ELSE stream
  BY DEF StartFragment
<1> HIDE DEF p
<1>5. stream \in Seq(Sizes) /\ (link # "up" => stream = << >>)
  BY DEF StreamInv
<1> QED
  BY <1>3, <1>4, <1>5, StreamTotal

\* With a message taken, all bytes are accounted for.
LEMMA SendMessageStreams ==
  ASSUME FramingInv, NEW n \in Lengths, SendMessage(n)
  PROVE  StreamInv'
<1>1. Resting
  BY DEF FramingInv, SenderInv, Sending, SendMessage, Free
<1>2. n \in Nat /\ 0 \in Nat /\ n - 0 > LengthSize + ChecksumSize
  BY TcpFramingAssumption DEF LengthSize, ChecksumSize
<1>3. StartFragment(n, 0) /\ StreamInv
  BY DEF SendMessage, FramingInv
<1>4. /\ txFragmentPending' \in Sizes
      /\ stream' \in Seq(Sizes)
      /\ link = "up" => Total(stream') = Total(stream) + txFragmentPending'
      /\ link # "up" => stream' = << >>
  BY <1>2, <1>3, StartFragmentStreams
<1>5. UNCHANGED <<link, inFlight, rxMsgIndex>> /\ link # "down"
  BY DEF SendMessage, rxVars
<1>6. link = "up" => Total(stream) = inFlight + rxMsgIndex
  BY <1>1, <1>3 DEF Resting, StreamInv, Accounted, FramingInv, ReaderInv, Waiting, Receiving
<1>7. inFlight \in Nat /\ rxMsgIndex \in Nat /\ txFragmentPending' \in Nat
  BY <1>3, <1>4 DEF StreamInv, FramingInv, ReaderInv, Waiting, Receiving, Sizes
<1>8. Accounted'
  BY <1>4, <1>5, <1>6, <1>7 DEF Accounted
<1> QED
  BY <1>3, <1>4, <1>5, <1>8 DEF StreamInv

\* With bytes taken by the socket, too.
LEMMA WriteStreams ==
  ASSUME FramingInv, NEW k \in 1..txBufferPending, Write(k)
  PROVE  StreamInv'
<1> DEFINE b == txBufferPending - k
           p == txFragmentPending - k
<1>1. Sending
  BY DEF FramingInv, SenderInv, Resting, Write
<1>2. /\ txBufferPending \in Nat /\ k \in Nat /\ k >= 1 /\ k <= txBufferPending
      /\ txFragmentPending \in Nat /\ txFragmentPending >= txBufferPending
      /\ txMsgOffset \in Nat /\ txMsgOffset <= mgenMsgLen /\ mgenMsgLen \in Nat
  BY <1>1, TcpFramingAssumption DEF Sending, Fragment
<1>3. b \in Nat /\ p \in Nat /\ b <= p
  BY <1>2
<1>4. StreamInv /\ inFlight \in Nat /\ rxMsgIndex \in Nat /\ stream \in Seq(Sizes)
  BY DEF StreamInv, FramingInv, ReaderInv, Waiting, Receiving
<1>5. link = "up" /\ link' = "up" /\ rxMsgIndex' = rxMsgIndex /\ inFlight' = inFlight + k
  BY DEF Write, rxVars
<1>6. Total(stream) \in Int /\ Total(stream) = txFragmentPending + inFlight + rxMsgIndex
  BY <1>4, <1>5, StreamTotal DEF StreamInv, Accounted
<1>7. ASSUME stream' \in Seq(Sizes),
             Total(stream') = txFragmentPending' + inFlight' + rxMsgIndex'
      PROVE  StreamInv'
  BY <1>2, <1>4, <1>5, <1>7 DEF StreamInv, Accounted
<1>8. CASE txFragmentPending' = p /\ UNCHANGED stream
  BY <1>2, <1>4, <1>5, <1>6, <1>7, <1>8
<1>9. CASE /\ b = 0 /\ p = 0 /\ txMsgOffset # mgenMsgLen
           /\ StartFragment(mgenMsgLen, txMsgOffset)
  <2>1. mgenMsgLen - txMsgOffset >= MinFragSize
    BY <1>1, <1>2, <1>9 DEF Sending, FragmentsFit
  <2>2. mgenMsgLen - txMsgOffset > LengthSize + ChecksumSize
    BY <1>2, <2>1, TcpFramingAssumption DEF LengthSize, ChecksumSize
  <2>3. /\ txFragmentPending' \in Sizes
        /\ stream' \in Seq(Sizes)
        /\ Total(stream') = Total(stream) + txFragmentPending'
    BY <1>2, <1>4, <1>5, <1>9, <2>2, StartFragmentStreams
  <2>4. txFragmentPending' \in Nat
    BY <2>3 DEF Sizes
  <2>5. txFragmentPending = k
    BY <1>2, <1>9
  <2> HIDE DEF b, p
  <2> QED
    BY <1>2, <1>4, <1>5, <1>6, <1>7, <2>3, <2>4, <2>5
<1>10. CASE b = 0 /\ p = 0 /\ ResetTx /\ UNCHANGED stream
  BY <1>2, <1>4, <1>5, <1>6, <1>7, <1>10 DEF ResetTx
<1> QED
  BY <1>3, <1>8, <1>9, <1>10 DEF Write

\* A read takes bytes that are on their way, so that there is a fragment they
\* are of.
LEMMA ReadFrom ==
  ASSUME FramingInv, NEW k \in 1..BufferSize, Read(k)
  PROVE  /\ k \in Nat /\ k >= 1 /\ inFlight - k \in Nat
         /\ inFlight' = inFlight - k
         /\ Head(stream) \in Sizes
         /\ Tail(stream) \in Seq(Sizes)
         /\ Total(stream) = Head(stream) + Total(Tail(stream))
         /\ Total(Tail(stream)) \in Int
         /\ Total(stream) = txFragmentPending + inFlight + rxMsgIndex
         /\ UNCHANGED <<checksums, link, handler, txVars>>
         /\ link = "up" /\ verdict = "good" /\ stream # << >>
<1>1. /\ k \in Nat /\ k >= 1 /\ k <= inFlight
      /\ inFlight' = inFlight - k
      /\ UNCHANGED <<checksums, link, handler, txVars>>
      /\ link = "up" /\ verdict = "good"
  BY TcpFramingAssumption DEF Read
<1>2. /\ stream \in Seq(Sizes) /\ inFlight \in Nat
      /\ Total(stream) = txFragmentPending + inFlight + rxMsgIndex
  BY <1>1 DEF FramingInv, StreamInv, Accounted
<1>3. txFragmentPending \in Nat /\ rxMsgIndex \in Nat
  BY SenderPending DEF FramingInv, ReaderInv, Waiting, Receiving
<1>4. stream # << >>
  BY <1>1, <1>2, <1>3, StreamTotal
<1>5. Tail(stream) \in Seq(Sizes)
  BY <1>2, <1>4, StreamTotal
<1>6. /\ Head(stream) \in Sizes
      /\ Total(stream) = Head(stream) + Total(Tail(stream))
  BY <1>2, <1>4, StreamTotal
<1>7. Total(Tail(stream)) \in Int
  BY <1>5, StreamTotal
<1>8. inFlight - k \in Nat
  BY <1>1, <1>2
<1> QED
  BY <1>1, <1>2, <1>4, <1>5, <1>6, <1>7, <1>8

\* What a step of the receiver leaves of the stream.
LEMMA ReadStreams ==
  ASSUME FramingInv, NEW k \in 1..BufferSize, Read(k),
         \/ UNCHANGED stream /\ rxMsgIndex' = rxMsgIndex + k
         \/ /\ stream' = Tail(stream) /\ rxMsgIndex' = 0
            /\ rxMsgIndex + k = Head(stream)
  PROVE  StreamInv'
<1>1. /\ k \in Nat /\ inFlight - k \in Nat /\ inFlight' = inFlight - k
      /\ Head(stream) \in Sizes
      /\ Tail(stream) \in Seq(Sizes)
      /\ Total(stream) = Head(stream) + Total(Tail(stream))
      /\ Total(Tail(stream)) \in Int
      /\ Total(stream) = txFragmentPending + inFlight + rxMsgIndex
      /\ UNCHANGED <<link, txFragmentPending>>
      /\ link = "up"
  BY ReadFrom DEF txVars
<1>2. stream \in Seq(Sizes) /\ inFlight \in Nat
  BY DEF FramingInv, StreamInv
<1>3. txFragmentPending \in Nat /\ rxMsgIndex \in Nat
  BY SenderPending DEF FramingInv, ReaderInv, Waiting, Receiving
<1>4. Head(stream) \in Nat
  BY <1>1 DEF Sizes
<1>5. Total(stream') = txFragmentPending' + inFlight' + rxMsgIndex'
  <2>1. CASE UNCHANGED stream /\ rxMsgIndex' = rxMsgIndex + k
    BY <1>1, <1>2, <1>3, <2>1
  <2>2. CASE stream' = Tail(stream) /\ rxMsgIndex' = 0 /\ rxMsgIndex + k = Head(stream)
    <3>1. Total(stream') = Total(Tail(stream))
      BY <2>2
    <3> QED
      BY <1>1, <1>2, <1>3, <1>4, <2>2, <3>1
  <2> QED
    BY <2>1, <2>2
<1>6. stream' \in Seq(Sizes)
  BY <1>1, <1>2
<1> QED
  BY <1>1, <1>5, <1>6 DEF StreamInv, Accounted

\* The length is read in one, and is the length of the first fragment.
LEMMA ReadLengthReads ==
  ASSUME FramingInv, "length" \notin Cuts, NEW k \in 1..BufferSize, Read(k),
         ReadLength(k)
  PROVE  StreamInv' /\ ReaderInv'
<1>1. Waiting
  BY DEF FramingInv, ReaderInv, Receiving, ReadLength, StreamInv, LengthSize
<1>2. k = LengthSize
  BY <1>1 DEF Read, Expected, Waiting
<1>3. Head(stream) \in Sizes /\ UNCHANGED link /\ link = "up" /\ verdict = "good" /\ stream # << >>
  BY ReadFrom
<1> DEFINE n == Head(stream)
<1>4. /\ n \in Nat /\ n > LengthSize + ChecksumSize /\ n <= MaxFragSize
      /\ MaxFragSize \in Nat /\ MaxFragSize < UINT16
      /\ BufferSize \in Nat /\ BufferSize > LengthSize
  BY <1>3, TcpFramingAssumption DEF Sizes, LengthSize, ChecksumSize
<1>5. /\ rxMsgIndex' = LengthSize
      /\ rxSummed' = LengthSize
      /\ rxMsgLen' = n
      /\ rxFragmentPending' = (n - LengthSize) % UINT16
      /\ verdict' = "good"
      /\ UNCHANGED <<stream, rxBufferIndex, unpacked>>
  BY <1>1, <1>2, <1>3 DEF ReadLength, Waiting, LengthSize
<1> HIDE DEF n
<1>6. n - LengthSize \in Nat /\ n - LengthSize < UINT16
  BY <1>4 DEF LengthSize, ChecksumSize, UINT16
<1>7. rxFragmentPending' = n - LengthSize
  BY <1>5, <1>6, Width
<1>8. rxMsgIndex' = rxMsgIndex + k
  BY <1>1, <1>2, <1>5 DEF Waiting, LengthSize
<1>9. StreamInv'
  BY <1>5, <1>8, ReadStreams
<1>10. Receiving'
  <2>1. stream' = stream /\ rxMsgLen' = Head(stream)
    BY <1>5 DEF n
  <2>2. unpacked' = FALSE
    BY <1>1, <1>5 DEF Waiting
  <2>3. rxMsgIndex' \in Nat /\ rxMsgIndex' < rxMsgLen' /\ ~(rxMsgIndex' >= BufferSize)
    BY <1>4, <1>5 DEF LengthSize, ChecksumSize
  <2>4. rxMsgIndex' >= LengthSize /\ rxFragmentPending' = rxMsgLen' - rxMsgIndex'
    BY <1>5, <1>7 DEF LengthSize
  <2>5. link' = "up" /\ stream' # << >> /\ rxMsgLen' = Head(stream')
    BY <1>3, <2>1
  <2> QED
    BY <2>2, <2>3, <2>4, <2>5 DEF Receiving
<1>11. Told'
  BY <1>1, <1>4, <1>5 DEF Told, Waiting, LengthSize, ChecksumSize
<1> QED
  BY <1>5, <1>9, <1>10, <1>11 DEF ReaderInv

\* A read within the fragment.  One that brings less than there is of the
\* checksum to read is one that the code does not expect.
LEMMA ReadMoreReads ==
  ASSUME FramingInv, NEW k \in 1..BufferSize, Read(k), ReadMore(k)
  PROVE  StreamInv' /\ ReaderInv'
<1> DEFINE i == rxMsgIndex + k
           c == ChecksumRead(i)
<1>1. k \in Nat /\ k >= 1 /\ link' = "up" /\ verdict = "good"
  BY ReadFrom
<1>2. Receiving /\ Told
  BY <1>1 DEF FramingInv, ReaderInv, Waiting, ReadMore
<1>3. /\ rxMsgLen = Head(stream) /\ rxMsgLen \in Nat /\ rxMsgLen <= MaxFragSize
      /\ rxMsgLen > LengthSize + ChecksumSize
      /\ MaxFragSize \in Nat /\ MaxFragSize < UINT16 /\ BufferSize \in Nat
      /\ stream # << >>
  BY <1>2, ReadFrom, TcpFramingAssumption DEF Receiving, Sizes
<1>4. /\ rxMsgIndex \in Nat /\ rxMsgIndex >= LengthSize /\ rxMsgIndex < rxMsgLen
      /\ rxFragmentPending = rxMsgLen - rxMsgIndex
      /\ unpacked \in BOOLEAN
      /\ rxMsgIndex >= BufferSize => unpacked
  BY <1>2 DEF Receiving
<1>5. /\ i < rxMsgLen
      /\ rxMsgIndex' = i
      /\ rxFragmentPending' = (rxFragmentPending - k) % UINT16
      /\ unpacked' = (unpacked \/ Unpacks(i))
      /\ UNCHANGED <<rxMsgLen, stream>>
  BY DEF ReadMore
<1>6. i \in Nat /\ rxMsgLen - i \in Nat /\ rxFragmentPending - k = rxMsgLen - i
  BY <1>1, <1>3, <1>4, <1>5
<1>7. rxFragmentPending' = rxMsgLen - i
  <2> DEFINE r == rxMsgLen - i
  <2>1. r \in Nat /\ r < UINT16
    BY <1>1, <1>3, <1>4, <1>6 DEF UINT16
  <2>2. rxFragmentPending' = r % UINT16
    BY <1>5, <1>6
  <2> HIDE DEF r
  <2>3. rxFragmentPending' = r
    BY <2>1, <2>2, Width
  <2> QED
    BY <2>3 DEF r
<1>8. StreamInv'
  BY <1>5, ReadStreams
<1>9. i >= BufferSize => unpacked'
  <2>1. CASE rxMsgIndex >= BufferSize
    BY <1>4, <1>5, <2>1
  <2>2. CASE rxMsgIndex < BufferSize
    <3>1. rxMsgLen - rxFragmentPending < BufferSize
      BY <1>3, <1>4, <2>2
    <3> QED
      BY <1>5, <3>1 DEF Unpacks
  <2> QED
    BY <1>3, <1>4, <2>1, <2>2
<1>10. unpacked' \in BOOLEAN
  BY <1>4, <1>5 DEF Unpacks
<1>11. Receiving'
  <2>1. rxMsgIndex' \in Nat /\ rxMsgIndex' >= LengthSize /\ rxMsgIndex' < rxMsgLen'
    BY <1>1, <1>4, <1>5, <1>6 DEF LengthSize
  <2> HIDE DEF i
  <2> QED
    BY <1>1, <1>3, <1>5, <1>7, <1>9, <1>10, <2>1 DEF Receiving
<1>12. CASE c > k
  <2>1. verdict' = "overrun"
    BY <1>12 DEF ReadMore
  <2>2. "checksum" \in Cuts
    BY <1>5, <1>12 DEF Read, Expected
  <2> QED
    BY <1>8, <1>11, <2>1, <2>2 DEF ReaderInv
<1>13. CASE ~(c > k)
  <2>1. /\ rxSummed' = rxSummed + (k - c)
        /\ rxBufferIndex' = rxBufferIndex + c
        /\ verdict' = "good"
    BY <1>1, <1>13 DEF ReadMore
  <2>2. c = IF i + ChecksumSize > rxMsgLen THEN i + ChecksumSize - rxMsgLen ELSE 0
    BY <1>3 DEF ChecksumRead, LengthSize, ChecksumSize
  <2>3. c \in Nat /\ c <= k
    BY <1>1, <1>3, <1>6, <1>13, <2>2 DEF ChecksumSize
  <2> HIDE DEF c
  <2>4. rxMsgIndex + ChecksumSize <= rxMsgLen
    BY <1>1, <1>3, <1>4, <2>2, <2>3 DEF ChecksumSize
  <2>5. rxSummed = rxMsgIndex /\ rxBufferIndex = 0
    BY <1>2, <1>3, <1>4, <2>4 DEF Told, ChecksumSize
  <2>6. Told'
    <3> HIDE DEF i
    <3>1. rxMsgIndex' = i /\ rxMsgLen' = rxMsgLen /\ i \in Nat
      BY <1>5, <1>6
    <3>2. rxSummed' = i - c /\ rxBufferIndex' = c
      BY <1>1, <1>4, <2>1, <2>3, <2>5 DEF i
    <3> QED
      BY <1>3, <2>2, <2>3, <3>1, <3>2 DEF Told, ChecksumSize
  <2> QED
    BY <1>8, <1>11, <2>1, <2>6 DEF ReaderInv
<1> QED
  BY <1>12, <1>13

\* The end of a fragment: it has been unpacked, and its checksum agrees.
LEMMA ReadEndReads ==
  ASSUME FramingInv, NEW k \in 1..BufferSize, Read(k), ReadEnd(k)
  PROVE  StreamInv' /\ ReaderInv'
<1>1. k \in Nat /\ k >= 1 /\ verdict = "good"
  BY ReadFrom
<1>2. Receiving /\ Told
  BY <1>1 DEF FramingInv, ReaderInv, Waiting, ReadEnd
<1>3. /\ rxMsgLen = Head(stream) /\ rxMsgLen \in Nat
      /\ rxMsgLen > LengthSize + ChecksumSize
      /\ BufferSize \in Nat
  BY <1>2, ReadFrom, TcpFramingAssumption DEF Receiving, Sizes
<1>4. /\ rxMsgIndex \in Nat /\ rxMsgIndex >= LengthSize /\ rxMsgIndex < rxMsgLen
      /\ rxFragmentPending = rxMsgLen - rxMsgIndex
      /\ rxMsgIndex >= BufferSize => unpacked
  BY <1>2 DEF Receiving
<1>5. rxMsgIndex + k = rxMsgLen /\ stream' = Tail(stream) /\ ResetRx
  BY DEF ReadEnd
<1>6. StreamInv'
  BY <1>3, <1>5, ReadStreams DEF ResetRx
<1>7. unpacked \/ Unpacks(rxMsgLen)
  <2>1. CASE rxMsgIndex < BufferSize
    <3>1. rxMsgLen - rxFragmentPending < BufferSize
      BY <1>3, <1>4, <2>1
    <3> QED
      BY <1>3, <3>1 DEF Unpacks
  <2> QED
    BY <1>3, <1>4, <2>1
<1>8. ChecksumGood(k)
  BY <1>1, <1>2, <1>3, <1>4, <1>5 DEF ChecksumGood, Told, ChecksumSize
<1>9. verdict' = "good"
  BY <1>1, <1>7, <1>8 DEF ReadEnd
<1>10. Waiting'
  BY <1>5 DEF ResetRx, Waiting
<1>11. ~Receiving'
  BY <1>10 DEF Waiting, Receiving
<1> QED
  BY <1>6, <1>9, <1>10, <1>11 DEF ReaderInv

LEMMA FramingInit == Init => FramingInv
<1> SUFFICES ASSUME Init PROVE FramingInv
  OBVIOUS
<1>1. stream = << >> /\ << >> \in Seq(Sizes)
  BY DEF Init
<1>2. Total(stream) = 0
  BY <1>1, StreamTotal
<1>3. StreamInv
  BY <1>1, <1>2 DEF Init, StreamInv, Accounted, LengthSize
<1>4. ReaderInv
  BY DEF Init, ReaderInv, Waiting, Receiving
<1> QED
  BY <1>3, <1>4, SenderInit DEF FramingInv

\* Every step keeps the receiver in step with the sender.
LEMMA FramingNext ==
  ASSUME "length" \notin Cuts
  PROVE  FramingInv /\ [Next]_vars => FramingInv'
<1> SUFFICES ASSUME FramingInv, [Next]_vars PROVE FramingInv'
  OBVIOUS
<1>1. SenderInv'
  BY SenderNext DEF FramingInv
<1>2. ASSUME StreamInv', UNCHANGED <<rxVars, verdict>>,
             \/ UNCHANGED <<link, stream>>
             \/ Waiting
             \/ /\ link = "up" /\ link' = "up"
                /\ stream # << >> /\ stream' # << >>
                /\ Head(stream') = Head(stream)
      PROVE  FramingInv'
  BY <1>1, <1>2 DEF FramingInv, ReaderInv, Waiting, Receiving, Told, rxVars
<1>3. ASSUME UNCHANGED <<link, stream, inFlight, rxVars, verdict, txFragmentPending>>,
             link # "down"
      PROVE  FramingInv'
  <2>1. StreamInv'
    BY <1>3 DEF FramingInv, StreamInv, Accounted, rxVars
  <2> QED
    BY <1>2, <1>3, <2>1
<1>4. stream \in Seq(Sizes) /\ (Receiving => link = "up" /\ stream # << >>)
  BY DEF FramingInv, StreamInv, Receiving
<1>5. ASSUME NEW p, p \in Sizes, stream # << >> PROVE Head(Append(stream, p)) = Head(stream)
  BY <1>4, <1>5, AppendProperties, HeadTailProperties, EmptySeq
<1>6. ASSUME NEW p \in Sizes PROVE Append(stream, p) # << >>
  BY <1>4, <1>6, AppendProperties, EmptySeq
<1>7. ASSUME NEW n \in Lengths, SendMessage(n) PROVE FramingInv'
  <2>1. StreamInv' /\ UNCHANGED <<rxVars, verdict, link>>
    BY <1>7, SendMessageStreams DEF SendMessage
  <2>2. n \in Nat /\ 0 \in Nat /\ n - 0 > LengthSize + ChecksumSize
    BY TcpFramingAssumption DEF LengthSize, ChecksumSize
  <2>3. /\ txFragmentPending' \in Sizes
        /\ link = "up" => stream' = Append(stream, txFragmentPending')
    BY <1>7, <2>2, StartFragmentStreams DEF SendMessage, FramingInv
  <2>4. Waiting \/ Receiving
    BY DEF FramingInv, ReaderInv
  <2> QED
    BY <1>2, <1>4, <1>5, <1>6, <2>1, <2>3, <2>4
<1>8. ASSUME NEW k \in 1..txBufferPending, Write(k) PROVE FramingInv'
  <2>1. StreamInv' /\ UNCHANGED <<rxVars, verdict, link>> /\ link = "up"
    BY <1>8, WriteStreams DEF Write
  <2>2. Waiting \/ Receiving
    BY DEF FramingInv, ReaderInv
  <2>3. CASE UNCHANGED stream
    BY <1>2, <2>1, <2>3
  <2>4. CASE stream' = Append(stream, FragmentSize(mgenMsgLen - txMsgOffset))
             /\ FragmentSize(mgenMsgLen - txMsgOffset) \in Sizes
    BY <1>2, <1>4, <1>5, <1>6, <2>1, <2>2, <2>4
  <2>5. \/ stream' = stream
        \/ /\ stream' = Append(stream, FragmentSize(mgenMsgLen - txMsgOffset))
           /\ FragmentSize(mgenMsgLen - txMsgOffset) \in Sizes
    <3>1. Sending
      BY <1>8 DEF FramingInv, SenderInv, Resting, Write
    <3>2. CASE /\ txFragmentPending - k = 0 /\ txBufferPending - k = 0 /\ txMsgOffset # mgenMsgLen
               /\ StartFragment(mgenMsgLen, txMsgOffset)
      <4>1. /\ txFragmentPending = txBufferPending
            /\ txMsgOffset \in Nat /\ mgenMsgLen \in Nat /\ txMsgOffset <= mgenMsgLen
        BY <1>8, <3>1, <3>2, TcpFramingAssumption DEF Sending, Fragment
      <4>2. mgenMsgLen - txMsgOffset > LengthSize + ChecksumSize
        BY <3>1, <3>2, <4>1, TcpFramingAssumption
           DEF Sending, FragmentsFit, LengthSize, ChecksumSize
      <4>3. txFragmentPending' \in Sizes
        BY <3>2, <4>1, <4>2, StartFragmentStreams DEF FramingInv
      <4> QED
        BY <2>1, <3>2, <4>3 DEF StartFragment
    <3> QED
      BY <1>8, <3>2 DEF Write
  <2> QED
    BY <2>3, <2>4, <2>5
<1>9. CASE OutputReady
  BY <1>3, <1>9 DEF OutputReady, txVars
<1>10. CASE WouldBlock
  BY <1>3, <1>10 DEF WouldBlock, txVars
<1>11. CASE WriteFails
  <2>1. StreamInv'
    BY <1>11 DEF WriteFails, FramingInv, StreamInv, Accounted
  <2> QED
    BY <1>2, <1>11, <2>1 DEF WriteFails
<1>12. ASSUME NEW k \in 1..BufferSize, Read(k) PROVE FramingInv'
  <2>1. StreamInv' /\ ReaderInv'
    BY <1>12, ReadLengthReads, ReadMoreReads, ReadEndReads DEF Read
  <2> QED
    BY <1>1, <2>1 DEF FramingInv
<1>13. CASE Break
  <2>1. StreamInv'
    BY <1>13 DEF Break, StreamInv, Accounted, Sizes
  <2>2. ReaderInv'
    BY <1>13 DEF Break, ResetRx, FramingInv, ReaderInv, Waiting, Receiving
  <2> QED
    BY <1>1, <2>1, <2>2 DEF FramingInv
<1>14. CASE OnDisconnect
  <2>1. StreamInv'
    BY <1>14 DEF OnDisconnect, FramingInv, StreamInv, Accounted, ResetTx, Resting
  <2>2. Waiting
    BY <1>14 DEF OnDisconnect, FramingInv, ReaderInv, Receiving
  <2> QED
    BY <1>2, <1>14, <2>1, <2>2 DEF OnDisconnect
<1>15. CASE Open
  <2>1. Waiting
    BY <1>15 DEF Open, FramingInv, ReaderInv, Receiving
  <2>2. Total(stream) = 0
    BY <1>15, StreamTotal DEF Open, FramingInv, StreamInv
  <2>3. StreamInv'
    BY <1>15, <2>1, <2>2
       DEF Open, FramingInv, StreamInv, Accounted, Resting, Waiting, rxVars, txVars
  <2> QED
    BY <1>2, <1>15, <2>1, <2>3 DEF Open
<1>16. CASE UNCHANGED vars
  <2>1. StreamInv'
    BY <1>16 DEF FramingInv, StreamInv, Accounted, Resting, vars, rxVars, txVars
  <2> QED
    BY <1>2, <1>16, <2>1 DEF vars
<1> QED
  BY <1>7, <1>8, <1>9, <1>10, <1>11, <1>12, <1>13, <1>14, <1>15, <1>16 DEF Next

\* When no length arrives in two reads, the receiver finds every fragment where
\* the sender has begun it, whatever the sizes of buffers, fragments and
\* messages, however the socket takes the bytes and brings them, and over any
\* number of connections: no byte is lost between OnEvent's two sides, and
\* CopyMsgBuffer has unpacked the header when a fragment ends.
THEOREM FragmentsFound ==
  ASSUME "length" \notin Cuts
  PROVE  Spec => []FragmentsRead
<1>1. Init => FramingInv
  BY FramingInit
<1>2. FramingInv /\ [Next]_vars => FramingInv'
  BY FramingNext
<1>3. FramingInv => FragmentsRead
  BY DEF FramingInv, SenderInv, StreamInv, ReaderInv, FragmentsRead, Resting, Sending, FragmentsFit
<1> QED
  BY <1>1, <1>2, <1>3, PTL DEF Spec

\* When, besides, no read ends within a checksum that others are to bring the
\* rest of, every fragment that arrives passes: CalcRxChecksum has the bytes
\* under the checksum that CalcTxChecksum had, and all four bytes of it.
THEOREM ChecksumsPass ==
  ASSUME Cuts = {}
  PROVE  Spec => []ChecksumsHold
<1>1. Init => FramingInv
  BY FramingInit
<1>2. FramingInv /\ [Next]_vars => FramingInv'
  BY FramingNext
<1>3. FramingInv => ChecksumsHold
  BY DEF FramingInv, ReaderInv, ChecksumsHold
<1> QED
  BY <1>1, <1>2, <1>3, PTL DEF Spec
================================================================================
