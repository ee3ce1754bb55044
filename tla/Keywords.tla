------------------------------- MODULE Keywords -------------------------------
(***************************************************************************)
(* What a word stands for: the commands of mgen and of MgenApp, the events,*)
(* and the options and patterns of a line may all be abbreviated.  Where a *)
(* word stands decides which lists it is looked up in and in which order;  *)
(* several fitting keywords are an error for most, and for the commands of *)
(* a script the last of them counts.  Letters are compared without case,   *)
(* and no keyword is as long as what words are cut to.                     *)
(*                                                                         *)
(* A word on the command line is looked up twice: to know whether it takes *)
(* an argument, and to be carried out.                                     *)
(***************************************************************************)
EXTENDS SequencesExt, Integers

VARIABLES place,    \* where the word stands
          word,
          taken,    \* the command that a word of the command line was taken for
          meaning   \* the keyword it stands for, "refused", or "reading"

vars == <<place, word, taken, meaning>>

INVALID == "INVALID"

-------------------------------------------------------------------------------
\* strncmp over the length of the word.
Fits(w, name) == Len(w) <= Len(name) /\ SubSeq(name, 1, Len(w)) = w
Fitting(list, w) == SelectSeq(list, LAMBDA name : Fits(w, name))

\* A match, but not if matchCount > 1.
TheOnly(list, w) ==
  LET fitting == Fitting(list, w) IN IF Len(fitting) = 1 THEN fitting[1] ELSE INVALID

EventTypes == <<"ON", "MOD", "OFF">>
EventType(w) == TheOnly(EventTypes, w)

Protocols == <<"UDP", "TCP", "SINK">>
Protocol(w) == TheOnly(Protocols, w)

Options ==
  <<"PROTOCOL", "DST", "SRC", "PATTERN", "BROADCAST", "TOS", "RSVP", "INTERFACE", "TTL", "DF",
    "SEQUENCE", "LABEL", "TXBUFFER", "DATA", "COUNT", "QUEUE", "CONNECT", "REPORT", "FEEDBACK",
    "SUSPEND", "RESUME", "RESET", "RETRY", "PAUSE", "RECONNECT">>
Option(w) == TheOnly(Options, w)

DrecTypes == <<"JOIN", "LEAVE", "LISTEN", "IGNORE">>
DrecType(w) == TheOnly(DrecTypes, w)

DrecOptions == <<"INTERFACE", "PORT", "RXBUFFER", "SRC">>
DrecOption(w) == TheOnly(DrecOptions, w)

PatternTypes == <<"PERIODIC", "POISSON", "BURST", "JITTER", "CLONE">>
PatternType(w) == TheOnly(PatternTypes, w)

BurstTypes == <<"REGULAR", "RANDOM">>
BurstType(w) == TheOnly(BurstTypes, w)

DurationTypes == <<"FIXED", "EXPONENTIAL">>
DurationType(w) == TheOnly(DurationTypes, w)

FileTypes == <<"TCPDUMP">>
FileType(w) == TheOnly(FileTypes, w)

\* OFF ends the commands: it is in the list for scripts, where it is no command.
Commands ==
  <<"EVENT", "START", "INPUT", "OUTPUT", "LOG", "SAVE", "DEBUG", "OFFSET", "TXLOG", "RXLOG",
    "LOCALTIME", "NOLOG", "DLOG", "BINARY", "FLUSH", "LABEL", "RXBUFFER", "TXBUFFER",
    "BROADCAST", "TOS", "TTL", "UNICAST_TTL", "DF", "INTERFACE", "CHECKSUM", "TXCHECKSUM",
    "RXCHECKSUM", "QUEUE", "REUSE", "ANALYTICS", "REPORT", "WINDOW", "SUSPEND", "RESUME",
    "RESET", "RETRY", "PAUSE", "RECONNECT", "EPOCHTIMESTAMP", "OFF">>

\* Mgen::GetCmdType.
CmdType(w) == TheOnly(Front(Commands), w)

\* Mgen::GetCommandFromString: the last that fits.
Command(w) ==
  LET fitting == Fitting(Commands, w)
  IN IF fitting = << >> \/ Last(fitting) = "OFF" THEN INVALID ELSE Last(fitting)

\* CMD_LIST of MgenApp.
AppCommands ==
  <<"PORT", "IPV6", "IPV4", "CONVERT", "SINK", "BLOCK", "SOURCE", "IFINFO", "PRECISE",
    "INSTANCE", "STOP", "COMMAND", "HOSTADDR", "BOOST", "SEED", "HELP", "GPSKEY", "LOGDATA",
    "LOGGPSDATA", "EPOCHTIMESTAMP">>

\* LOG is left to Mgen.
AppCmdType(w) == IF w = "LOG" THEN INVALID ELSE TheOnly(AppCommands, w)

-------------------------------------------------------------------------------
First(a, b) == IF a # INVALID THEN a ELSE b
Refusing(name) == IF name = INVALID THEN "refused" ELSE name

\* ProcessCommands asks MgenApp first.
TakenFor(w) == First(AppCmdType(w), CmdType(w))

\* MgenApp::OnCommand asks again; CONVERT is not carried out unless in full.
CarriedOut(w) ==
  LET app == AppCmdType(w)
  IN IF app = INVALID THEN IF CmdType(w) = INVALID THEN INVALID ELSE Command(w)
     ELSE IF app = "CONVERT" /\ w # app THEN "nothing"
     ELSE app

\* The type of an event, for ParseEvent.
AnyEventType(w) == First(EventType(w), DrecType(w))

\* A line of a script begins with a command, or else with an event that is due at
\* once.
ScriptWord(w) == First(Command(w), AnyEventType(w))

\* A protocol or a pattern needs no label; with a label it is looked up by it.
FlowOption(w) ==
  LET name == First(Protocol(w), First(PatternType(w), Option(w)))
  IN IF name \in {"PROTOCOL", "PATTERN"} THEN INVALID ELSE name

Meaning(w) ==
  CASE place = "script" -> ScriptWord(w)
    [] place = "event" -> AnyEventType(w)
    [] place = "option" -> FlowOption(w)
    [] place = "listen" -> Protocol(w)
    [] place = "join" -> DrecOption(w)
    [] place = "burst" -> BurstType(w)
    [] place = "inner" -> PatternType(w)
    [] place = "duration" -> DurationType(w)
    [] place = "clone" -> FileType(w)

Known ==
  [startup |-> Front(Commands) \o AppCommands,
   script |-> Front(Commands) \o EventTypes \o DrecTypes,
   event |-> EventTypes \o DrecTypes,
   option |-> Protocols \o PatternTypes \o Options,
   listen |-> Protocols, join |-> DrecOptions, burst |-> BurstTypes, inner |-> PatternTypes,
   duration |-> DurationTypes, clone |-> FileTypes]

Init ==
  /\ place \in DOMAIN Known
  /\ \E name \in ToSet(Known[place]) : \E n \in 1..Len(name) : word = SubSeq(name, 1, n)
  /\ taken = "none"
  /\ meaning = "reading"

\* ProcessCommands.
Classify ==
  /\ place = "startup" /\ taken = "none"
  /\ taken' = TakenFor(word)
  /\ UNCHANGED <<place, word, meaning>>

Perform ==
  /\ place = "startup" /\ taken # "none" /\ meaning = "reading"
  /\ meaning' = IF taken = INVALID THEN "refused" ELSE Refusing(CarriedOut(word))
  /\ UNCHANGED <<place, word, taken>>

\* ParseEvent, and InitFromString of events and patterns.
Look ==
  /\ place # "startup" /\ meaning = "reading"
  /\ meaning' = Refusing(Meaning(word))
  /\ UNCHANGED <<place, word, taken>>

Next == Classify \/ Perform \/ Look

Spec == Init /\ [][Next]_vars

-------------------------------------------------------------------------------
\* A keyword in full stands for itself wherever it may stand, whatever keywords it
\* begins, and whatever the other lists have; the labels PROTOCOL and PATTERN stand
\* for nothing.
SpelledOut ==
  (meaning # "reading" /\ word \in ToSet(Known[place]) \ {"PROTOCOL", "PATTERN"})
     => meaning = word

\* A word of the command line is carried out as the command it was taken for when
\* it was given an argument or none, or not at all.
CarriedOutAsTaken ==
  (place = "startup" /\ meaning # "reading") => meaning \in {taken, "refused", "nothing"}

\* An abbreviation that is accepted fits no other keyword that may stand there.
\* Commands, and options next to protocols and patterns, do not promise that.
FitsNoOther ==
  (place \notin {"startup", "script", "option"} /\ meaning \notin {"reading", "refused"}) =>
    \A name \in ToSet(Known[place]) : Fits(word, name) => name = meaning

\* Words stand for the keywords they are given for.
NamesMeant == SpelledOut /\ CarriedOutAsTaken /\ FitsNoOther
================================================================================
