------------------------------- MODULE EventLine -------------------------------
(***************************************************************************)
(* MgenEvent::InitFromString: the options of an ON, MOD or OFF line, read  *)
(* from left to right into an event.  One step reads one option.           *)
(*                                                                         *)
(* An option is a record of its label and its value.  "PROTOCOL" and       *)
(* "PATTERN" stand for the options told by their own names (UDP, PERIODIC  *)
(* ...), which the code looks for first; "INVALID" for a label of no       *)
(* option, or one that begins several.                                     *)
(***************************************************************************)
EXTENDS Integers, Sequences, SequencesExt, Functions

CONSTANTS Lines,          \* the lines read: type and options
          MaxPort,        \* 65535
          MaxByte,        \* 255
          Modulus,        \* 2^32
          MIN_SIZE, MAX_SIZE, MIN_FRAG_SIZE,
          MAX_FLOW

VARIABLES line,           \* the whole line
          rest,           \* the options not read yet
          event,          \* what the event has for each option
          optionMask,     \* option_mask
          result          \* of InitFromString, or "reading"

vars == <<line, rest, event, optionMask, result>>

Unset == "unset"
Status == [SUSPEND |-> 1, RESUME |-> 2, RESET |-> 3]
Plain == {"PROTOCOL", "DST", "SRC", "BROADCAST", "TOS", "INTERFACE", "TTL", "DF", "LABEL",
          "TXBUFFER", "DATA", "QUEUE"}
Switches == {"CONNECT", "REPORT", "FEEDBACK"}

NewEvent ==
  [l \in Plain \cup Switches
        \cup {"PATTERN", "SEQUENCE", "COUNT", "RETRY", "keepAlive", "low", "high"} |->
     CASE l = "RETRY" -> <<0, 0>> [] l = "keepAlive" -> TRUE [] l \in {"low", "high"} -> {}
       [] OTHER -> Unset]

Init ==
  /\ line \in Lines
  /\ rest = line.options
  /\ event = NewEvent
  /\ optionMask = {}
  /\ result = "reading"

-------------------------------------------------------------------------------
Sizes(o) == IF o.value[1] > o.value[2] THEN Reverse(o.value) ELSE o.value

\* The pattern is checked by the protocol the line has named so far: another than
\* UDP, and none, only bound the size from below.
SizesValid(sizes, protocol) ==
  IF protocol = "UDP" THEN sizes[2] <= MAX_SIZE /\ sizes[1] >= MIN_SIZE
  ELSE sizes[1] >= MIN_FRAG_SIZE

PortValid(o) == IF o.label = "DST" THEN o.value \in 1..MaxPort ELSE o.value \in 0..MaxPort
ByteValid(o) == o.value \in 0..MaxByte
ListValid(o) == o.value[1] > 0 /\ o.value[2] >= o.value[1]

\* RSVP, labels of no option and values out of bounds end the line.
Valid(o) ==
  /\ o.label \notin {"RSVP", "INVALID"}
  /\ o.label \in {"DST", "SRC"} => PortValid(o)
  /\ o.label \in {"TOS", "TTL"} => ByteValid(o)
  /\ o.label = "PATTERN" => SizesValid(Sizes(o), event["PROTOCOL"])
  /\ o.label \in DOMAIN Status => ListValid(o)

\* Whatever follows a comma turns keep alive off: it differs from ",off" or from
\* ",OFF".
Count(o) == [event EXCEPT !["COUNT"] = o.value[1],
                          !.keepAlive = event.keepAlive /\ o.value[2] = "none"]

\* A retry without a delay leaves the delay that was given before.
Retry(o) == [event EXCEPT !["RETRY"] = IF Len(o.value) = 2 THEN o.value
                                       ELSE <<o.value[1], event["RETRY"][2]>>]

Switch(o) == [event EXCEPT ![o.label] = TRUE,
                           !["REPORT"] = IF o.label = "FEEDBACK" THEN TRUE ELSE @]

\* A range that does not fit in the mask has no effect.
SetBits(bits, range, set) ==
  IF ~(range \subseteq 1..MAX_FLOW) THEN bits
  ELSE IF set THEN bits \cup range ELSE bits \ range

SetRange(range, status) ==
  [event EXCEPT !.low = SetBits(@, range, status % 2 = 1),
                !.high = SetBits(@, range, status >= 2)]

\* What the event becomes by an option.
With(o) ==
  CASE o.label \in Plain -> [event EXCEPT ![o.label] = o.value]
    [] o.label = "PATTERN" -> [event EXCEPT !["PATTERN"] = Sizes(o)]
    [] o.label = "SEQUENCE" -> [event EXCEPT !["SEQUENCE"] = o.value % Modulus]
    [] o.label = "COUNT" -> Count(o)
    [] o.label = "RETRY" -> Retry(o)
    [] o.label \in Switches -> Switch(o)
    [] o.label \in DOMAIN Status -> SetRange(o.value[1]..o.value[2], Status[o.label])
    [] OTHER -> event   \* PAUSE and RECONNECT are only marked

ReadOption ==
  /\ result = "reading"
  /\ rest # << >>
  /\ LET o == Head(rest)
     IN IF Valid(o)
        THEN event' = With(o) /\ optionMask' = optionMask \cup {o.label} /\ UNCHANGED result
        ELSE result' = "refused" /\ UNCHANGED <<event, optionMask>>
  /\ rest' = Tail(rest)
  /\ UNCHANGED line

Required == {"PROTOCOL", "DST", "PATTERN"}

End ==
  /\ result = "reading"
  /\ rest = << >>
  /\ result' = IF line.type = "ON" /\ ~(Required \subseteq optionMask) THEN "refused" ELSE "accepted"
  /\ UNCHANGED <<line, rest, event, optionMask>>

Next == ReadOption \/ End

Spec == Init /\ [][Next]_vars

-------------------------------------------------------------------------------
TypeOK ==
  /\ line \in Lines
  /\ IsSuffix(rest, line.options)
  /\ optionMask \subseteq ToSet([i \in DOMAIN line.options |-> line.options[i].label])
  /\ event.low \cup event.high \subseteq 1..MAX_FLOW
  /\ result \in {"reading", "accepted", "refused"}

\* The last of some places in the line, or 0.
LastOf(places) == IF places = {} THEN 0 ELSE Max(places)

\* Where the line has an option, and where it names a flow that the mask has a bit for.
Named(l) == {i \in DOMAIN line.options : line.options[i].label = l}
Listing(f) ==
  {i \in DOMAIN line.options :
     LET o == line.options[i]
     IN o.label \in DOMAIN Status /\ f \in o.value[1]..o.value[2] /\ o.value[2] <= MAX_FLOW}

\* What the event tells the receiver to do with a flow.
Told(f) == (IF f \in event.low THEN 1 ELSE 0) + (IF f \in event.high THEN 2 ELSE 0)

\* An accepted line means what it says: of options given twice the last counts,
\* and each flow it lists gets the last command that names it, for the receiver
\* to carry out.
LastCounts ==
  result = "accepted" =>
    /\ \A l \in Plain :
         LET last == LastOf(Named(l))
         IN event[l] = IF last = 0 THEN Unset ELSE line.options[last].value
    /\ \A f \in 1..MAX_FLOW :
         LET last == LastOf(Listing(f))
         IN Told(f) = IF last = 0 THEN 0 ELSE Status[line.options[last].label]

\* A flow is not given messages its protocol cannot carry: no UDP message above
\* MAX_SIZE, none below what a header takes.
SizesCarried ==
  (result = "accepted" /\ line.type = "ON") =>
    LET s == event["PATTERN"]
    IN IF event["PROTOCOL"] = "UDP" THEN MIN_SIZE <= s[1] /\ s[2] <= MAX_SIZE
       ELSE MIN_FRAG_SIZE <= s[1]
================================================================================
