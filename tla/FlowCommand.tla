------------------------------ MODULE FlowCommand ------------------------------
(***************************************************************************)
(* Flows of one mgen suspended, resumed and reset by the messages of a flow*)
(* of another: DoOnEvent puts the lists of an ON line into a               *)
(* MgenFlowCommand, whose two masks of bits (MgenFlowCommand::SetStatus)   *)
(* grow with the ids they hold, every message carries a copy, and          *)
(* ProcessRecvMessage carries out each one that arrives, over UDP: late,   *)
(* twice, or never.                                                        *)
(***************************************************************************)
EXTENDS Integers

CONSTANTS Ids,          \* the flows named
          MAX_FLOW,
          BufferRoom,   \* bytes of command_buffer
          Commands,     \* the lists of ON lines: from ids to statuses
          MaxOns        \* most ON events

VARIABLES bytes,        \* the bits set in each byte of the command
          length,       \* its length
          told,         \* what the events so far say of each flow
          ons,          \* ON events so far
          sent,         \* messages under way: any may arrive, at any time, again
          suspended,    \* flow_suspended at the receiver
          sinceReset    \* messages_sent is not 0 there

vars == <<bytes, length, told, ons, sent, suspended, sinceReset>>

UNCHANGED_STATUS == 0
SUSPEND == 1
RESUME == 2
RESET == 3
OFFSET_BITS == 2

Init ==
  /\ bytes = [b \in 0..(BufferRoom - 1) |-> {}]
  /\ length = OFFSET_BITS
  /\ told = [i \in Ids |-> UNCHANGED_STATUS]
  /\ ons = 0
  /\ sent = {}
  /\ suspended = [i \in Ids |-> FALSE]
  /\ sinceReset = [i \in Ids |-> FALSE]

-------------------------------------------------------------------------------
\* Bytes a command takes that has flow id: each mask is 1 + 2 * N bytes.
Growth(id) == IF 2 * id > 16 THEN (2 * id - 16 - 1) \div 32 + 1 ELSE 0
LengthNeeded(id) == OFFSET_BITS + 2 + Growth(id) * 4

MaskLength(len) == (len - OFFSET_BITS) \div 2

\* Mutant: the bytes between the masks keep what was there.
GrownDirty(cmd, needed) ==
  LET old == MaskLength(cmd.length)
      new == MaskLength(needed)
  IN [length |-> needed,
      bytes |-> [b \in DOMAIN cmd.bytes |->
        IF b >= OFFSET_BITS + new /\ b < OFFSET_BITS + new + old THEN cmd.bytes[b - new + old]
        ELSE cmd.bytes[b]]]
\* The second mask moves up, and what it leaves is cleared.
Grown(cmd, needed) ==
  LET old == MaskLength(cmd.length)
      new == MaskLength(needed)
  IN [length |-> needed,
      bytes |-> [b \in DOMAIN cmd.bytes |->
        IF b >= OFFSET_BITS + new /\ b < OFFSET_BITS + new + old THEN cmd.bytes[b - new + old]
        ELSE IF b >= OFFSET_BITS + old /\ b < OFFSET_BITS + 2 * new THEN {}
        ELSE cmd.bytes[b]]]

ByteOf(id) == OFFSET_BITS + (id - 1) \div 8
BitOf(id) == (id - 1) % 8

Marked(set, bit, on) == IF on THEN set \cup {bit} ELSE set \ {bit}

SetStatus(cmd, id, status) ==
  LET wide == IF LengthNeeded(id) > cmd.length THEN Grown(cmd, LengthNeeded(id)) ELSE cmd
      low == ByteOf(id)
      high == ByteOf(id) + MaskLength(wide.length)
  IN [wide EXCEPT !.bytes[low] = Marked(@, BitOf(id), status % 2 = 1),
                  !.bytes[high] = Marked(@, BitOf(id), status >= 2)]

GetStatus(cmd, id) ==
  IF LengthNeeded(id) > cmd.length THEN UNCHANGED_STATUS
  ELSE (IF BitOf(id) \in cmd.bytes[ByteOf(id)] THEN 1 ELSE 0)
       + (IF BitOf(id) \in cmd.bytes[ByteOf(id) + MaskLength(cmd.length)] THEN 2 ELSE 0)

Command == [bytes |-> bytes, length |-> length]

\* The flows of the list, one after the other from the lowest id.
SetAll(list) ==
  LET upTo[n \in 0..MAX_FLOW] ==
        IF n = 0 THEN Command
        ELSE IF n \notin Ids \/ list[n] = UNCHANGED_STATUS THEN upTo[n - 1]
        ELSE SetStatus(upTo[n - 1], n, list[n])
  IN upTo[MAX_FLOW]

-------------------------------------------------------------------------------
On(list) ==
  /\ ons < MaxOns
  /\ ons' = ons + 1
  /\ LET cmd == SetAll(list)
     IN bytes' = cmd.bytes /\ length' = cmd.length
  /\ told' = [i \in Ids |-> IF list[i] = UNCHANGED_STATUS THEN told[i] ELSE list[i]]
  /\ UNCHANGED <<sent, suspended, sinceReset>>

\* A message has the command once the flow has one.
Send ==
  /\ length > OFFSET_BITS
  /\ sent' = sent \cup {[command |-> Command, told |-> told]}
  /\ UNCHANGED <<bytes, length, told, ons, suspended, sinceReset>>

GetMaxFlowId(cmd) == (8 * (cmd.length - OFFSET_BITS)) \div 2

\* ProcessRecvMessage: MgenFlow::Suspend, Resume or Reset of each flow that has a status.
Receive(m) ==
  LET named == {i \in Ids : i <= GetMaxFlowId(m.command) /\ i <= MAX_FLOW}
      Status(i) == IF i \in named THEN GetStatus(m.command, i) ELSE UNCHANGED_STATUS
  IN /\ suspended' = [i \in Ids |-> CASE Status(i) = UNCHANGED_STATUS -> suspended[i]
                                      [] OTHER -> Status(i) = SUSPEND]
     /\ sinceReset' = [i \in Ids |-> IF Status(i) = RESET THEN FALSE ELSE sinceReset[i]]
     /\ UNCHANGED <<bytes, length, told, ons, sent>>

\* A flow of the receiver sends a message.
Count(i) ==
  /\ ~suspended[i]
  /\ ~sinceReset[i]
  /\ sinceReset' = [sinceReset EXCEPT ![i] = TRUE]
  /\ UNCHANGED <<bytes, length, told, ons, sent, suspended>>

Next ==
  \/ \E list \in Commands : On(list)
  \/ Send
  \/ \E m \in sent : Receive(m)
  \/ \E i \in Ids : Count(i)

Spec == Init /\ [][Next]_vars

-------------------------------------------------------------------------------
TypeOK ==
  /\ bytes \in [0..(BufferRoom - 1) -> SUBSET (0..7)]
  /\ length \in {OFFSET_BITS} \cup {LengthNeeded(i) : i \in 1..MAX_FLOW}
  /\ length <= BufferRoom
  /\ suspended \in [Ids -> BOOLEAN]

\* What a receiver reads of a message is what the sender's events had said of
\* each flow when it was sent, whatever order the ids came in as the masks grew:
\* a flow nobody named is left alone.
AsTold ==
  /\ \A i \in Ids : GetStatus(Command, i) = told[i]
  /\ \A m \in sent, i \in Ids : (IF i <= GetMaxFlowId(m.command) THEN GetStatus(m.command, i)
                                 ELSE UNCHANGED_STATUS) = m.told[i]
================================================================================
