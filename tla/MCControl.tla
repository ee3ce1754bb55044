------------------------------- MODULE MCControl -------------------------------
(***************************************************************************)
(* What controls an mgen, for TLC: the intervals that a pattern gives      *)
(* (Patterns), the schedule that events are put in and executed from       *)
(* (EventSchedule), and what comes before: a script is read (ScriptReader),*)
(* commands come in (CommandInput), words are looked up (Keywords),        *)
(* commands have effect (Commands), lines become events (EventLine,        *)
(* DrecLine), and traces are sent (Traces).  The schedule takes events at  *)
(* any time, so each part starts from initial states of its own; those but *)
(* the first two share the variables s1 to s13.  Nothing is said of the    *)
(* schedule in the other parts, where it stays as it is when mgen begins.  *)
(***************************************************************************)
EXTENDS EventSchedule, Samples

CONSTANTS Menu, Scripts, Pattern, Changed, Draws, Delays, MaxCalls,
          MaxFile, LineMax, MaxInput, MaxCommand, MaxCommands,
          EventLines, MaxPort, MaxByte, SequenceModulus, MIN_SIZE, MAX_SIZE, MIN_FRAG_SIZE,
          MAX_FLOW, DrecLines, PortModulus,
          Cloners, Modified, CloneLines, Recordings, Second, MaxSent

ASSUME ControlAssumption ==
  /\ Draws \subseteq Nat
  /\ Delays \subseteq Nat
  /\ MaxCalls \in Nat
  /\ {MaxFile, MaxCommand} \subseteq Nat

VARIABLES part,
          events, freed, current, remainder, duration, lastTime, innerLeft, clock, calls,
          lastInterval, burstStarted, previous, crashed,
          s1, s2, s3, s4, s5, s6, s7, s8, s9, s10, s11, s12, s13

Pace == INSTANCE Patterns WITH started <- burstStarted

Script == INSTANCE ScriptReader WITH
  file <- s1, rest <- s2, text <- s3, lines <- s4, lineCount <- s5, events <- s6, result <- s7

Input == INSTANCE CommandInput WITH
  Hangups <- FALSE,
  written <- s1, unread <- s2, command <- s3, executed <- s4, errors <- s5

Words == INSTANCE Keywords WITH place <- s1, word <- s2, taken <- s3, meaning <- s4

Given == INSTANCE Commands WITH
  Peer <- TRUE,
  mgen <- s1, app <- s2, remote <- s3, todo <- s4, later <- s5

Line == INSTANCE EventLine WITH
  Lines <- EventLines, Modulus <- SequenceModulus,
  line <- s1, rest <- s2, event <- s3, optionMask <- s4, result <- s5

Drecs == INSTANCE DrecLine WITH
  Lines <- DrecLines,
  line <- s1, rest <- s2, event <- s3, items <- s4, array <- s5, arraySize <- s6, port <- s7,
  high <- s8, result <- s9

Cloning == INSTANCE Traces WITH
  Flow <- Cloners, Lines <- CloneLines, Files <- Recordings, Modulus <- 256,
  Together <- FALSE, Mods <- Modified,
  line <- s1, state <- s2, device <- s3, repeatCount <- s4, size <- s5, wait <- s6, sent <- s7,
  message <- s8, prevTime <- s9, interval <- s10, firstPacket <- s11, crashed <- s12

\* What may be given: flows are numbers, an event is for one, a script has no command
\* without its argument, and no log file is called "stdout".
ASSUME MenuAssumption ==
  /\ \A c \in Given!AllCommands :
       /\ c.list \in Seq(Nat \X Nat)
       /\ c.name = "EVENT" => Given!Missing(c) \/ c.list # << >>
       /\ c.name = "INPUT" => c.arg \in {"bad", "none"} \cup DOMAIN Scripts
  /\ \A s \in DOMAIN Scripts :
       /\ Scripts[s] \in Seq(Given!AllCommands)
       /\ \A i \in DOMAIN Scripts[s] : ~Given!Missing(Scripts[s][i])
  /\ "stdout" \notin Given!LogFiles

SampleDrecs == SampleDrecLines(PortModulus - 2)

\* What lines may have: two sizes for a pattern, two ids for a range of flows, in an ON
\* the protocol before the pattern, and no port that is the highest there is.
ASSUME LineAssumption ==
  /\ {MIN_SIZE, MAX_SIZE, MIN_FRAG_SIZE, MAX_FLOW} \subseteq Nat
  /\ \A l \in EventLines :
       /\ l.options \in Seq(ToSet(l.options))
       /\ \A i \in DOMAIN l.options :
            l.options[i].label \in {"PATTERN"} \cup DOMAIN Line!Status =>
              l.options[i].value \in Int \X Int
       /\ l.type = "ON" => ProtocolFirst(l.options)
  /\ PortModulus \in Nat
  /\ \A l \in DrecLines :
       /\ l.options \in Seq(ToSet(l.options))
       /\ \A i \in DOMAIN l.options :
            l.options[i].label = "PORT" =>
              l.options[i].value \in Seq((0..(PortModulus - 2)) \X (0..(PortModulus - 2)))

\* What traces may have: two packets, each of a message with its headers and none too
\* long to be sent, and a last interval that is not a second.
ASSUME TraceAssumption ==
  /\ Second \in Nat
  /\ \A l \in CloneLines : l.count \in Int
  /\ \A n \in DOMAIN Recordings :
       /\ Recordings[n] \in Seq([time : Int, size : 42..(42 + 255)])
       /\ Len(Recordings[n]) >= 2
       /\ Recordings[n][Len(Recordings[n])].time - Recordings[n][Len(Recordings[n]) - 1].time
            # Second

pace == <<events, freed, current, remainder, duration, lastTime, innerLeft, clock, calls,
          lastInterval, burstStarted, previous, crashed>>
others == <<s1, s2, s3, s4, s5, s6, s7, s8, s9, s10, s11, s12, s13>>

\* Variables a part does not use.
From10 == s10 = 0 /\ s11 = 0 /\ s12 = 0 /\ s13 = 0
From8 == s8 = 0 /\ s9 = 0 /\ From10
From6 == s6 = 0 /\ s7 = 0 /\ From8
From1 == s1 = 0 /\ s2 = 0 /\ s3 = 0 /\ s4 = 0 /\ s5 = 0 /\ From6
NoPatterns == events = CHOOSE e \in Pattern \X Changed : TRUE
NoSchedule == offset = NoOffset

OtherParts ==
  \/ part = "script" /\ Script!Init /\ From8
  \/ part = "input" /\ Input!Init /\ From6
  \/ part = "words" /\ Words!Init /\ s5 = 0 /\ From6
  \/ part = "commands" /\ Given!Init /\ From6
  \/ part = "events" /\ Line!Init /\ From6
  \/ part = "drecs" /\ Drecs!Init /\ From10
  \/ part = "traces" /\ Cloning!Init /\ s13 = 0

MCInit ==
  /\ Init /\ Pace!Init
  /\ \/ part = "patterns" /\ NoSchedule /\ From1
     \/ part = "schedule" /\ NoPatterns /\ From1
     \/ NoPatterns /\ NoSchedule /\ OtherParts

Intervals == part = "patterns" /\ Pace!Next /\ UNCHANGED <<part, vars, others>>
Scheduling == part = "schedule" /\ Next /\ UNCHANGED <<part, pace, others>>

MCNext ==
  \/ Intervals
  \/ Scheduling
  \/ /\ \/ part = "script" /\ Script!Next /\ UNCHANGED <<s8, s9, s10, s11, s12, s13>>
        \/ part = "input" /\ Input!Next /\ UNCHANGED <<s6, s7, s8, s9, s10, s11, s12, s13>>
        \/ part = "words" /\ Words!Next /\ UNCHANGED <<s5, s6, s7, s8, s9, s10, s11, s12, s13>>
        \/ part = "commands" /\ Given!Next /\ UNCHANGED <<s6, s7, s8, s9, s10, s11, s12, s13>>
        \/ part = "events" /\ Line!Next /\ UNCHANGED <<s6, s7, s8, s9, s10, s11, s12, s13>>
        \/ part = "drecs" /\ Drecs!Next /\ UNCHANGED <<s10, s11, s12, s13>>
        \/ part = "traces" /\ Cloning!Next /\ UNCHANGED s13
     /\ UNCHANGED <<part, vars, pace>>

MCSpec ==
  /\ MCInit
  /\ [][MCNext]_<<part, vars, pace, others>>
  /\ Fairness

-------------------------------------------------------------------------------
\* However bursts are cut and changed, the next one begins when the one before says.
Paced == Pace!Paced

\* What is read is what was written: of a script every letter, in order; of commands
\* every one, once; and of a trace every packet, at its own intervals.
ReadAsWritten ==
  /\ part = "script" => Script!NothingLost
  /\ part = "input" => Input!ExecutedAsWritten
  /\ part = "traces" => Cloning!AsRecorded

\* An accepted line means what it says, keyword by keyword, option by option and
\* port by port, and gives no flow messages its protocol cannot carry.
LinesMeant ==
  /\ part = "words" => Words!NamesMeant
  /\ part = "events" => Line!LastCounts /\ Line!SizesCarried
  /\ part = "drecs" => Drecs!PortsListed

\* A setting is what the command line or remote control gave last.
Overrides == part = "commands" => Given!Overrides

\* No log file gets records of both formats.
OneFormat == part = "commands" => Given!OneFormat

\* A flow is suspended exactly when the last list that names it said so.
SuspendedAsTold == part = "commands" => Given!SuspendedAsTold
================================================================================
