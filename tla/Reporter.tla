------------------------------- MODULE Reporter -------------------------------
(***************************************************************************)
(* MgenAnalyticReporter: the queue of reports of a flow that reports back  *)
(* what the host receives.  An analytic whose report was updated is taken  *)
(* out and put in again (UpdateAnalyticReport); each message of the flow   *)
(* carries as many reports as fit, round robin (MgenFlow::SendMessage).    *)
(*                                                                         *)
(* The queue and its iterator are external (ProtoSimpleQueue): the iterator*)
(* stands at the next item or past the end, a removal moves it on, and an  *)
(* item put in right before it may or may not become the next one.         *)
(***************************************************************************)
EXTENDS SequencesExt, Integers, FiniteSets

CONSTANTS Analytics, NoAnalytic,
          Reciprocal,  \* the analytics of flows that come from our destination
          Feedback,    \* report_feedback: only those are reported
          MaxRoom,     \* most reports that fit in a message
          ExactFit     \* may reports fill a message to the last byte?

VARIABLES table,       \* the analytics there are (analytic_table)
          queue,       \* report_queue
          next,        \* where report_iterator stands
          last,        \* last_unreported_item
          message,     \* history: the reports of the last message
          odd          \* history: is the number of messages odd?

vars == <<table, queue, next, last, message, odd>>

Init ==
  /\ table = {}
  /\ queue = << >>
  /\ next = NoAnalytic
  /\ last = NoAnalytic
  /\ message = << >>
  /\ odd = FALSE

-------------------------------------------------------------------------------
(***************************************************************************)
(* The queue: s.queue with the iterator at s.next and s.last.              *)
(***************************************************************************)
Place(s, a) == CHOOSE i \in 1..Len(s.queue) : s.queue[i] = a
Holds(s, a) == a \in Range(s.queue)
FirstItem(s) == IF s.queue = << >> THEN NoAnalytic ELSE Head(s.queue)
Following(s, a) == IF a = Last(s.queue) THEN NoAnalytic ELSE s.queue[Place(s, a) + 1]

\* Mutant: the item that is removed stays the last unreported one.
LeaveLastSame(s, a) == s.last

\* last_unreported_item of Remove: the item before it, or the last of all.
LeaveLast(s, a) ==
  IF a # s.last THEN s.last
  ELSE IF a = s.next THEN NoAnalytic
  ELSE IF Holds(s, a) /\ Place(s, a) > 1 THEN s.queue[Place(s, a) - 1]
  ELSE IF s.queue = << >> THEN NoAnalytic ELSE Last(s.queue)

SetBack(s) == IF s.next = NoAnalytic THEN [s EXCEPT !.next = FirstItem(s)] ELSE s

Removed(s, a) ==
  SetBack([last |-> LeaveLast(s, a),
           queue |-> IF Holds(s, a) THEN RemoveAt(s.queue, Place(s, a)) ELSE s.queue,
           next |-> IF s.next = a THEN Following(s, a) ELSE s.next])

\* Add: before the next item or after the last unreported one, which has to be
\* in the queue; a new queue starts with the item.
Added(s, a, follows) ==
  IF s.last = NoAnalytic
  THEN IF s.next = NoAnalytic
       THEN [s EXCEPT !.queue = <<a>> \o @, !.next = a, !.last = a]
       ELSE [s EXCEPT !.queue = InsertAt(@, Place(s, s.next), a),
                      !.next = IF follows THEN a ELSE @,
                      !.last = a]
  ELSE IF ~Holds(s, s.last) THEN s
  ELSE [s EXCEPT !.queue = InsertAt(@, Place(s, s.last) + 1, a),
                 !.next = IF follows /\ @ = Following(s, s.last) THEN a ELSE @,
                 !.last = a]

Queue == [queue |-> queue, next |-> next, last |-> last]

Becomes(s) ==
  /\ queue' = s.queue
  /\ next' = s.next
  /\ last' = s.last

-------------------------------------------------------------------------------
\* UpdateRecvAnalytics, when a window of a ends; the first report of a new one.
UpdateAnalyticReport(a, follows) ==
  /\ Becomes(Added(Removed(Queue, a), a, follows))
  /\ table' = table \cup {a}
  /\ UNCHANGED <<message, odd>>

RemoveAnalytic(a) ==
  /\ a \in table
  /\ Becomes(Removed(Queue, a))
  /\ table' = table \ {a}
  /\ UNCHANGED <<message, odd>>

\* Mutant: the round starts at the head of the queue.
RoundFromHead == queue

\* The items from the next one on, once around (PeekNextItem stops where it
\* began), without those this flow does not report.
Round ==
  IF next = NoAnalytic THEN queue
  ELSE LET i == Place(Queue, next) IN SubSeq(queue, i, Len(queue)) \o SubSeq(queue, 1, i - 1)

Reported(a) == ~Feedback \/ a \in Reciprocal

\* The place in the round of the report that fills the message.
Filled(round, room) ==
  {i \in 1..Len(round) :
     /\ Reported(round[i])
     /\ Cardinality({j \in 1..i : Reported(round[j])}) = room}

\* MgenFlow::SendMessage: after the report that fills the message nothing looks
\* at the queue again if not a byte is left; else the iterator is set back from
\* the end of the queue.
SendMessage(room, exact) ==
  LET round == Round
      full == Filled(round, room)
      taken == IF full = {} THEN round ELSE SubSeq(round, 1, CHOOSE i \in full : TRUE)
      at == IF taken = << >> THEN next ELSE Following(Queue, Last(taken))
  IN /\ room > 0
     /\ exact => full # {}
     /\ message' = SelectSeq(taken, Reported)
     /\ odd' = ~odd
     /\ next' = IF at = NoAnalytic /\ ~exact THEN FirstItem(Queue) ELSE at
     /\ UNCHANGED <<table, queue, last>>

Updates == \E a \in Analytics, follows \in BOOLEAN : UpdateAnalyticReport(a, follows)
Removes == \E a \in Analytics : RemoveAnalytic(a)
Sends == \E room \in 1..MaxRoom, exact \in {FALSE, ExactFit} : SendMessage(room, exact)

Next == Updates \/ Removes \/ Sends

Spec == Init /\ [][Next]_vars

-------------------------------------------------------------------------------
\* The analytics in the queue are those of the table, each once; neither the
\* iterator nor last_unreported_item is left at one that has been removed; and
\* Add finds the iterator past the end only if the queue is empty (its ASSERT).
Listed ==
  /\ Range(queue) = table
  /\ Len(queue) = Cardinality(table)
  /\ next \in table \cup {NoAnalytic}
  /\ last \in table \cup {NoAnalytic}
  /\ last = NoAnalytic /\ next = NoAnalytic => queue = << >>

\* Once updates end, every report goes out again and again.
Fairness == WF_vars(Sends) /\ <>[][~Updates /\ ~Removes]_vars
FairSpec == Spec /\ Fairness

AllReported ==
  \A a \in Analytics : []<>(a \in table /\ Reported(a) => a \in Range(message))
================================================================================
