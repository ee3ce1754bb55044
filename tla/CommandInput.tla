----------------------------- MODULE CommandInput -----------------------------
(***************************************************************************)
(* MgenApp::OnCmdInputReady: commands from a file, a device or a pipe, read*)
(* one byte at a time whenever the dispatcher finds the descriptor ready.  *)
(* A character is "end" (a new line, ";" or any other delimiter), " " or a *)
(* letter.                                                                 *)
(***************************************************************************)
EXTENDS SequencesExt, FiniteSets, Integers

CONSTANTS MaxInput,    \* most characters written
          MaxCommand,  \* room for a command in cmd_buffer
          Hangups      \* may the descriptor be ready with nothing to read?

VARIABLES written,     \* all that was written to the input
          unread,      \* the part that was not read yet
          command,     \* cmd_buffer up to cmd_length
          executed,    \* commands and arguments given to OnCommand
          errors       \* reports of a read error

vars == <<written, unread, command, executed, errors>>

Characters == {"a", "b", " ", "end"}

Init == written = << >> /\ unread = << >> /\ command = << >> /\ executed = << >> /\ errors = FALSE

Write(c) ==
  /\ Len(written) < MaxInput
  /\ written' = Append(written, c)
  /\ unread' = Append(unread, c)
  /\ UNCHANGED <<command, executed, errors>>

\* The command ends at the first space, and the rest is its argument.
Split(s) ==
  LET spaces == {i \in DOMAIN s : s[i] = " "}
      first == CHOOSE i \in spaces : \A j \in spaces : i <= j
  IN IF spaces = {} THEN [cmd |-> s, arg |-> << >>]
     ELSE [cmd |-> SubSeq(s, 1, first - 1), arg |-> SubSeq(s, first + 1, Len(s))]

\* Mutant: the buffer is emptied only where a command is executed with an argument.
TakeKeeping(c) ==
  IF c # "end"
  THEN /\ command' = IF Len(command) < MaxCommand THEN Append(command, c) ELSE command
       /\ UNCHANGED executed
  ELSE /\ executed' = IF command = << >> THEN executed ELSE Append(executed, Split(command))
       /\ command' = IF Split(command).arg = << >> THEN command ELSE << >>

\* A delimiter executes what was read, if anything; what does not fit is dropped.
Take(c) ==
  IF c # "end"
  THEN /\ command' = IF Len(command) < MaxCommand THEN Append(command, c) ELSE command
       /\ UNCHANGED executed
  ELSE /\ executed' = IF command = << >> THEN executed ELSE Append(executed, Split(command))
       /\ command' = << >>

OnCmdInputReady ==
  /\ unread # << >>
  /\ Take(Head(unread))
  /\ unread' = Tail(unread)
  /\ UNCHANGED <<written, errors>>

\* read() returns nothing: where errno, which it need not have set, says so this
\* passes for a byte, and the byte is whatever the local variable had.
OnNothing ==
  /\ Hangups
  /\ unread = << >>
  /\ \/ \E c \in Characters : Take(c) /\ UNCHANGED errors
     \/ errors' = TRUE /\ UNCHANGED <<command, executed>>
  /\ UNCHANGED <<written, unread>>

Next == (\E c \in Characters : Write(c)) \/ OnCmdInputReady \/ OnNothing

Spec == Init /\ [][Next]_vars

-------------------------------------------------------------------------------
TypeOK ==
  /\ written \in Seq(Characters)
  /\ IsSuffix(unread, written)
  /\ Len(command) <= MaxCommand
  /\ errors \in BOOLEAN

\* What is between the delimiter at e in s and the one before it, cut to the room there is.
LineBefore(s, e) ==
  LET ends == {i \in DOMAIN s : s[i] = "end"}
      start == 1 + CHOOSE i \in ends \cup {0} : i < e /\ \A j \in ends : j < e => j <= i
  IN SubSeq(s, start, IF e - start > MaxCommand THEN start + MaxCommand - 1 ELSE e - 1)

\* The delimiters in s that end a command.
FullEnds(s) == {e \in DOMAIN s : s[e] = "end" /\ LineBefore(s, e) # << >>}

\* Commands are executed as they were written, each once and in order, however
\* the input arrives.
ExecutedAsWritten ==
  LET read == SubSeq(written, 1, Len(written) - Len(unread))
      full == FullEnds(read)
  IN /\ Len(executed) = Cardinality(full)
     /\ \A e \in full :
          executed[Cardinality({d \in full : d <= e})] = Split(LineBefore(read, e))
================================================================================
