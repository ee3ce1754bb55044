----------------------------- MODULE ScriptReader -----------------------------
(***************************************************************************)
(* Mgen::ParseScript over Mgen::FastReader: the lines of a script, some of *)
(* them continued on the next, become events with a line number each.  One *)
(* step is one call of Readline, which reads a line of the file; ParseEvent*)
(* of what was put together belongs to the step that ends it.              *)
(*                                                                         *)
(* A character is "\\", "space", "end" (newline or carriage return), or a  *)
(* letter: "o" of a good line or "x", which ParseEvent refuses.            *)
(***************************************************************************)
EXTENDS SequencesExt, FiniteSets, Integers

CONSTANTS MaxFile,       \* most characters of the file
          LineMax        \* SCRIPT_LINE_MAX

VARIABLES file,          \* the whole file
          rest,          \* what was not read yet
          text,          \* lineBuffer up to ptr, the lines joined so far
          lines,         \* lines of the group that were read
          lineCount,     \* lineCount of ParseScript
          events,        \* the lines given to ParseEvent, with their numbers
          result         \* of ParseScript, or "reading"

vars == <<file, rest, text, lines, lineCount, events, result>>

Characters == {"o", "x", "space", "\\", "end"}

Init ==
  /\ file \in SeqOf(Characters, MaxFile)
  /\ rest = file
  /\ text = << >>
  /\ lines = 0
  /\ lineCount = 0
  /\ events = << >>
  /\ result = "reading"

-------------------------------------------------------------------------------
Ended(s) == \E i \in DOMAIN s : s[i] = "end"
FirstEnd(s) == CHOOSE i \in DOMAIN s : s[i] = "end" /\ \A j \in 1..(i - 1) : s[j] # "end"

\* The line as it is left after trailing white space was skipped, the first
\* character not being looked at.
Stripped(s) ==
  LET kept == {i \in DOMAIN s : i = 1 \/ s[i] # "space"}
  IN SubSeq(s, 1, CHOOSE i \in kept \cup {0} : \A j \in kept : j <= i)

Blank(s) == s = << >> \/ s = <<"space">>

\* The backslashes at the end of the line.
Slashes(s) == Cardinality({i \in DOMAIN s : \A j \in i..Len(s) : s[j] = "\\"})

Continues(s) == Slashes(s) % 2 = 1

Unslashed(s) == IF Slashes(s) > 0 THEN Front(s) ELSE s

Space == LineMax - Len(text)

\* Readline: no line ends in what is left of the buffer, or in the file.
Overflows(s) == \A i \in 1..Space : i \in DOMAIN s /\ s[i] # "end"
Done(s) == ~Ended(s) /\ ~Overflows(s)

Refused(s) == \E i \in DOMAIN s : s[i] = "x"

\* lineCount after a group of lines: ParseScript numbers the group by its first line.
NextCount(n) == n + lines + 1

-------------------------------------------------------------------------------
\* A blank line is skipped, within a continued line too.
Skip(line) ==
  /\ Blank(Stripped(line))
  /\ UNCHANGED <<text, lineCount, events, result>>
  /\ lines' = lines + 1

Join(s) == text \o s

Continue(line) ==
  /\ ~Blank(Stripped(line))
  /\ Continues(Stripped(line))
  /\ text' = Join(Unslashed(Stripped(line)))
  /\ lines' = lines + 1
  /\ UNCHANGED <<lineCount, events, result>>

Deliver(line) ==
  /\ ~Blank(Stripped(line))
  /\ ~Continues(Stripped(line))
  /\ LET whole == Join(Unslashed(Stripped(line)))
     IN /\ events' = Append(events, [text |-> whole, number |-> lineCount + 1])
        /\ result' = IF Refused(whole) THEN "refused" ELSE "reading"
  /\ lineCount' = NextCount(lineCount)
  /\ lines' = 0
  /\ text' = << >>

ReadLine ==
  /\ result = "reading"
  /\ ~Overflows(rest)
  /\ Ended(rest)
  /\ LET line == SubSeq(rest, 1, FirstEnd(rest) - 1)
     IN Skip(line) \/ Continue(line) \/ Deliver(line)
  /\ rest' = SubSeq(rest, FirstEnd(rest) + 1, Len(rest))
  /\ UNCHANGED file

\* The end of the file ends the script, with whatever was read since the last
\* end of a line; a line that does not fit is an error.
End ==
  /\ result = "reading"
  /\ Overflows(rest) \/ Done(rest)
  /\ result' = IF Done(rest) THEN "done" ELSE "error"
  /\ UNCHANGED <<file, rest, text, lines, lineCount, events>>

Next == ReadLine \/ End

Spec == Init /\ [][Next]_vars

-------------------------------------------------------------------------------
TypeOK ==
  /\ file \in SeqOf(Characters, MaxFile)
  /\ IsSuffix(rest, file)
  /\ Len(text) <= LineMax
  /\ lines \in 0..MaxFile
  /\ lineCount \in 0..MaxFile
  /\ result \in {"reading", "done", "refused", "error"}

\* The characters of s that are in S.
Only(s, S) == FlattenSeq([i \in DOMAIN s |-> IF s[i] \in S THEN <<s[i]>> ELSE << >>])
Letters(s) == Only(s, {"o", "x"})
Count(s) == Len(Only(s, {"end"}))

\* The events and the line being put together have every letter that was read,
\* in order, however lines are continued, blank or padded; and lines are counted
\* right, so that a bad line is reported within the group it is in.
NothingLost ==
  LET read == SubSeq(file, 1, Len(file) - Len(rest))
  IN /\ Letters(FlattenSeq([i \in DOMAIN events |-> events[i].text]) \o text) = Letters(read)
     /\ lineCount + lines = Count(read)
     /\ \A i, j \in DOMAIN events : i < j => events[i].number < events[j].number
================================================================================
