----------------------------- MODULE PendingQueue -----------------------------
(***************************************************************************)
(* The round robin of flows that wait for a transport (MgenTransport's     *)
(* pending list), as a value: the flows in the order in which they were    *)
(* appended and the flow SendPendingMessage serves next.  The pointers the *)
(* code threads through the flows are in PendingList.tla.                  *)
(***************************************************************************)
EXTENDS Integers, Sequences

CONSTANTS Flow,      \* the flows of one mgen process
          NoFlow     \* the NULL pointer

ASSUME NoFlowAssumption == NoFlow \notin Flow

Queues == [list : Seq(Flow), cur : Flow \cup {NoFlow}]

EmptyQueue == [list |-> << >>, cur |-> NoFlow]

Queued(q) == {q.list[i] : i \in DOMAIN q.list}

Index(q, f) == CHOOSE i \in DOMAIN q.list : q.list[i] = f

HeadOf(s) == IF s = << >> THEN NoFlow ELSE s[1]

Without(s, i) == [j \in 1..(Len(s) - 1) |-> IF j < i THEN s[j] ELSE s[j + 1]]

\* Mutant: a flow that is in the list already is appended again.
AppendFlowTwice(q, f) ==
  [list |-> Append(q.list, f), cur |-> IF q.list = << >> THEN f ELSE q.cur]

(***************************************************************************)
(* AppendFlow: a flow that is already in the list keeps its place, and the *)
(* first one to arrive is the one to serve.                                *)
(***************************************************************************)
AppendFlow(q, f) ==
  IF f \in Queued(q) THEN q
  ELSE [list |-> Append(q.list, f),
        cur  |-> IF q.list = << >> THEN f ELSE q.cur]

(***************************************************************************)
(* RemoveFlow: taking out the tail sends the cursor back to the head,      *)
(* whichever flow it was at.                                               *)
(***************************************************************************)
RemoveFlow(q, f) ==
  IF f \notin Queued(q) THEN q
  ELSE LET i    == Index(q, f)
           rest == Without(q.list, i)
       IN [list |-> rest,
           cur  |-> IF i > 1 /\ i = Len(q.list) THEN HeadOf(rest)
                    ELSE IF q.cur # f THEN q.cur
                    ELSE IF i = 1 THEN HeadOf(rest)
                    ELSE q.list[i + 1]]

(***************************************************************************)
(* RemoveFromPendingList takes out the flow at the cursor and moves the    *)
(* cursor on; Advance only moves it on, back to the head after the tail.   *)
(***************************************************************************)
After(q) ==
  LET i == Index(q, q.cur)
  IN IF i < Len(q.list) THEN q.list[i + 1] ELSE NoFlow

RemoveFromPendingList(q) ==
  LET rest == Without(q.list, Index(q, q.cur))
  IN [list |-> rest, cur |-> IF After(q) # NoFlow THEN After(q) ELSE HeadOf(rest)]

\* Mutant: the cursor is not sent back to the head.
AdvanceOff(q) == [q EXCEPT !.cur = After(q)]

Advance(q) ==
  [q EXCEPT !.cur = IF After(q) # NoFlow THEN After(q) ELSE HeadOf(q.list)]

(***************************************************************************)
(* What every list reached by these operations is: no flow twice, and the  *)
(* cursor in the list unless the list is empty.                            *)
(***************************************************************************)
WellFormed(q) ==
  /\ \A i, j \in DOMAIN q.list : q.list[i] = q.list[j] => i = j
  /\ IF q.list = << >> THEN q.cur = NoFlow ELSE q.cur \in Queued(q)
================================================================================
