------------------------------- MODULE DrecLine --------------------------------
(***************************************************************************)
(* DrecEvent::InitFromString: JOIN, LEAVE, LISTEN and IGNORE lines, and the*)
(* list of ports CreatePortArray makes of "5000,5002-5004".  One step      *)
(* reads an option, takes an item of the list, or writes one port.         *)
(***************************************************************************)
EXTENDS Integers, Sequences, SequencesExt

CONSTANTS Lines,        \* the lines read
          PortModulus   \* 2^16: lowValue, highValue, range, count and p are UINT16

VARIABLES line,         \* type, address or protocol, and options
          rest,         \* options not read yet
          event,        \* what was read of them
          items,        \* the list being made into an array: what is left of it
          array,        \* the ports written: the first "count" of the array
          arraySize,    \* room there is for them
          port, high,   \* of the range being written: p and highValue
          result        \* "reading", "listing", "writing", "accepted" or "refused"

vars == <<line, rest, event, items, array, arraySize, port, high, result>>

Groups == {"group4", "group6"}
Sources == {"source4", "source6"}
SameType(group, source) == <<group, source>> \in {<<"group4", "source4">>, <<"group6", "source6">>}

Init ==
  /\ line \in Lines
  /\ rest = line.options
  /\ event = [interface |-> "none", source |-> "none", ports |-> << >>, rxBuffer |-> 0]
  /\ items = << >> /\ array = << >> /\ arraySize = 0 /\ port = 0 /\ high = 0
  /\ result = "reading"

list == <<items, array, arraySize, port, high>>

Refuse == result' = "refused" /\ UNCHANGED <<event, list>>

-------------------------------------------------------------------------------
Groupwise == line.type \in {"JOIN", "LEAVE"}

\* A group must be multicast, a protocol known.
Begins ==
  IF Groupwise THEN line.of \in Groups ELSE line.of \in {"UDP", "TCP", "SINK"}

ReadInterface(o) ==
  event' = [event EXCEPT !.interface = o.value] /\ UNCHANGED <<list, result>>

ReadSource(o) ==
  IF o.value \in Sources /\ SameType(line.of, o.value)
  THEN event' = [event EXCEPT !.source = o.value] /\ UNCHANGED <<list, result>>
  ELSE Refuse

\* In a JOIN or LEAVE the label is skipped, and a value after it read as a label.
SkipRxBuffer(o) == IF o.value = 0 THEN UNCHANGED <<event, list, result>> ELSE Refuse

\* In a JOIN or LEAVE a second list replaces the first.
ReadPorts(o) ==
  /\ items' = o.value
  /\ array' = << >> /\ arraySize' = 0
  /\ result' = "listing"
  /\ UNCHANGED <<event, port, high>>

ReadOption ==
  /\ result = "reading"
  /\ Begins /\ Groupwise
  /\ rest # << >>
  /\ LET o == Head(rest)
     IN \/ o.label = "INTERFACE" /\ ReadInterface(o)
        \/ o.label = "SRC" /\ ReadSource(o)
        \/ o.label = "RXBUFFER" /\ SkipRxBuffer(o)
        \/ o.label = "PORT" /\ ReadPorts(o)
        \/ o.label = "INVALID" /\ Refuse
  /\ rest' = Tail(rest)
  /\ UNCHANGED line

\* A LISTEN or IGNORE has its list first.
ReadList ==
  /\ result = "reading"
  /\ Begins /\ ~Groupwise
  /\ rest # << >> /\ Len(rest) = Len(line.options)
  /\ IF Head(rest).label = "PORT" THEN ReadPorts(Head(rest)) ELSE Refuse
  /\ rest' = Tail(rest)
  /\ UNCHANGED line

\* Of what follows the list one word is looked at: RXBUFFER, which must have a number.
ReadAfterList ==
  /\ result = "reading"
  /\ Begins /\ ~Groupwise
  /\ rest # << >> /\ Len(rest) < Len(line.options)
  /\ LET o == Head(rest)
     IN IF o.label # "RXBUFFER" THEN UNCHANGED <<event, list, result>>
        ELSE IF o.value \in Nat
        THEN event' = [event EXCEPT !.rxBuffer = o.value] /\ UNCHANGED <<list, result>>
        ELSE Refuse
  /\ rest' = << >>
  /\ UNCHANGED line

\* A LISTEN or IGNORE without a list is refused.
End ==
  /\ result = "reading"
  /\ Begins => rest = << >>
  /\ result' = IF Begins /\ (Groupwise \/ line.options # << >>) THEN "accepted" ELSE "refused"
  /\ UNCHANGED <<line, rest, event, list>>

-------------------------------------------------------------------------------
UINT16(n) == n % PortModulus

\* Mutant: the array grows by one port too few.
GrownShort(range) == IF range > arraySize - Len(array) THEN arraySize + range - 1 ELSE arraySize
\* Room for the range is added to what there is, where that does not do.
Grown(range) == IF range > arraySize - Len(array) THEN arraySize + range ELSE arraySize

TakeItem ==
  /\ result = "listing"
  /\ items # << >>
  /\ LET low == UINT16(Head(items)[1])
         top == UINT16(Head(items)[2])
     IN IF top < low THEN Refuse
        ELSE /\ arraySize' = Grown(UINT16(top - low + 1))
             /\ port' = low
             /\ high' = top
             /\ result' = "writing"
             /\ UNCHANGED <<event, array>>
             /\ items' = Tail(items)
  /\ UNCHANGED <<line, rest>>

\* count wraps: after PortModulus ports the array is written from its beginning again,
\* and none are counted.
Write(p) == array' = IF Len(array) + 1 = PortModulus THEN << >> ELSE Append(array, p)

\* Past the end of the range the next item is taken; "p <= highValue" holds for
\* ever where the range ends with the highest value there is.
WritePort ==
  /\ result = "writing"
  /\ IF port <= high
     THEN /\ Write(port)
          /\ port' = UINT16(port + 1)
          /\ UNCHANGED result
     ELSE result' = "listing" /\ UNCHANGED <<array, port>>
  /\ UNCHANGED <<line, rest, event, items, arraySize, high>>

\* No array means no ports: the line is refused.
Listed ==
  /\ result = "listing"
  /\ items = << >>
  /\ IF arraySize = 0 THEN Refuse
     ELSE event' = [event EXCEPT !.ports = array] /\ result' = "reading" /\ UNCHANGED list
  /\ UNCHANGED <<line, rest>>

Next == ReadOption \/ ReadList \/ ReadAfterList \/ End \/ TakeItem \/ WritePort \/ Listed

Spec == Init /\ [][Next]_vars

-------------------------------------------------------------------------------
TypeOK ==
  /\ line \in Lines
  /\ array \in Seq(0..(PortModulus - 1))
  /\ {port, high} \subseteq 0..(PortModulus - 1)
  /\ result \in {"reading", "listing", "writing", "accepted", "refused"}

\* The ports of a range, and of the first n items of a list, written out.
PortRange(low, top) == [k \in 1..(top - low + 1) |-> low + k - 1]
PortsTo(l, n) ==
  LET upTo[i \in 0..Len(l)] == IF i = 0 THEN << >> ELSE upTo[i - 1] \o PortRange(l[i][1], l[i][2])
  IN upTo[n]

\* The last list of ports there is among the first n options; a LISTEN has the first.
LastPorts(n) ==
  LET lists == {i \in 1..n : line.options[i].label = "PORT" /\ (Groupwise \/ i = 1)}
  IN IF lists = {} THEN << >> ELSE line.options[Max(lists)].value

\* No port is written past the end of the array, and an accepted line has the
\* ports of its last list, each as often as it is named.  A list that names
\* PortModulus of them or more loses ports: see Write.
PortsListed ==
  /\ Len(array) <= arraySize
  /\ result = "accepted" =>
       LET last == LastPorts(Len(line.options))
           ports == PortsTo(last, Len(last))
       IN Len(ports) < PortModulus => event.ports = ports
================================================================================
