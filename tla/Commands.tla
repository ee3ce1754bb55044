------------------------------- MODULE Commands -------------------------------
(***************************************************************************)
(* The global commands of mgen and where they come from: the command line  *)
(* and the scripts it names (ProcessCommands, ParseScript), and, once mgen *)
(* runs, its remote control and its command input (OnControlEvent,         *)
(* OnCmdInputReady).  Commands that are not from a script override.        *)
(*                                                                         *)
(* A command has a name, an argument and, where flows are named, a list: of*)
(* pairs <<first, last>> for SUSPEND, RESUME and RESET, where <<0, 0>> is  *)
(* "all", and of one flow for an event.  The argument may be "bad", or     *)
(* "none" when it was left out.  An option that several defaults are set   *)
(* by (RETRY) stands for all of them.  What START, PAUSE, RESET or an event*)
(* does to a flow is in EventSchedule, TcpFlows and UdpFlows.              *)
(***************************************************************************)
EXTENDS SequencesExt, FiniteSets, Integers

CONSTANTS Menu,         \* the commands that may be given
          Scripts,      \* the lines of each script
          MaxCommands,  \* most commands on the command line, and after it
          Peer          \* does an instance of that name run already?

VARIABLES mgen,         \* what commands change, see Initially
          app,          \* "startup", "running", "naming" or "ended"
          remote,       \* control_remote
          todo,         \* the rest of the command line
          later         \* commands received since mgen runs

vars == <<mgen, app, remote, todo, later>>

Checked == {"TXBUFFER", "RXBUFFER", "BROADCAST", "TOS", "INTERFACE", "DF", "TTL",
            "UNICAST_TTL", "QUEUE", "RETRY"}
Guarded == {"START", "OFFSET", "LABEL", "SAVE"}
Flags == {"TXLOG", "LOCALTIME", "FLUSH", "ANALYTICS", "REPORT", "TXCHECKSUM", "RXCHECKSUM",
          "CHECKSUM", "EPOCHTIMESTAMP"}
Switches == {"RXLOG", "REUSE", "WINDOW", "DEBUG"}
LogCommands == {"OUTPUT", "LOG", "NOLOG"}
FlowCommands == {"SUSPEND", "RESUME", "RESET"}

\* Commands that take no argument.
NoArgument == Flags \cup {"NOLOG", "BINARY", "STOP", "HELP"}

Settings == Checked \cup Guarded \cup Flags \cup Switches

\* All commands there may be, those of scripts too.
AllCommands == Menu \cup UNION {Range(Scripts[s]) : s \in DOMAIN Scripts}

LogFiles ==
  {c.arg : c \in {d \in AllCommands : d.name \in {"OUTPUT", "LOG"}}} \ {"bad", "none"}

\* Mgen::Mgen; OnStartup logs to standard output by default.
Initially ==
  [value |-> [n \in Settings |-> "default"],
   lock |-> [n \in Checked \cup Guarded \cup {"LOG"} |-> FALSE],
   logFile |-> "stdout",
   binary |-> FALSE,      \* log_binary
   open |-> FALSE,        \* log_open
   contents |-> [f \in LogFiles |-> {}],  \* what each file has, of "text" and "binary"
   flows |-> << >>,       \* flow_list
   queue |-> << >>,       \* the queue_limit of each
   suspended |-> {},
   ok |-> TRUE,           \* what the last command returned
   given |-> << >>]       \* history: commands that came to OnCommand

Init ==
  /\ mgen = Initially
  /\ app = "startup"
  /\ remote = FALSE
  /\ todo \in SeqOf(Menu, MaxCommands)
  /\ later = 0

-------------------------------------------------------------------------------
(***************************************************************************)
(* Mgen::OnCommand(cmd, arg, override) on s.                               *)
(***************************************************************************)
Refused(s) == [s EXCEPT !.ok = FALSE]
Shielded(s, n, override) == s.lock[n] /\ ~override

\* Mutant: the lock is not looked at.
SetAnyway(s, n, v, override) == [s EXCEPT !.value[n] = v, !.lock[n] = @ \/ override]

\* The SetDefault functions of Mgen, and the assignments to a value with a lock.
Set(s, n, v, override) ==
  IF Shielded(s, n, override) THEN s
  ELSE [s EXCEPT !.value[n] = v, !.lock[n] = @ \/ override]

\* The argument is looked at first; a bad receive buffer size is used all the
\* same, a variable that has no value.
SetChecked(s, c, override) ==
  IF c.arg # "bad" THEN Set(s, c.name, c.arg, override)
  ELSE IF c.name = "RXBUFFER" THEN Set(s, c.name, "undefined", override)
  ELSE Refused(s)

\* The argument is looked at only where it is used.
SetGuarded(s, c, override) ==
  IF c.arg = "bad" /\ ~Shielded(s, c.name, override) THEN Refused(s)
  ELSE Set(s, c.name, c.arg, override)

\* Flags are set for good, whoever sets them.
SetFlag(s, c) ==
  LET names == CASE c.name = "REPORT" -> {"REPORT", "ANALYTICS"}
                 [] c.name = "CHECKSUM" -> {"TXCHECKSUM", "RXCHECKSUM"}
                 [] OTHER -> {c.name}
  IN [s EXCEPT !.value = [n \in DOMAIN @ |-> IF n \in names THEN "on" ELSE @[n]]]

\* DEBUG takes any argument: atoi makes a level of it.
SetSwitch(s, c) ==
  IF c.arg = "bad" /\ c.name # "DEBUG" THEN Refused(s) ELSE [s EXCEPT !.value[c.name] = c.arg]

\* OpenLog appends to the file for LOG, and writes it anew for OUTPUT.
SetLog(s, c, override) ==
  IF Shielded(s, "LOG", override) THEN s
  ELSE IF c.arg = "bad" THEN Refused(s)
  ELSE [s EXCEPT !.lock["LOG"] = override,
                 !.logFile = IF c.name = "NOLOG" THEN "none" ELSE c.arg,
                 !.open = @ \/ c.name # "NOLOG",
                 !.contents = IF c.name = "OUTPUT" THEN [@ EXCEPT ![c.arg] = {}] ELSE @]

\* Mutant: the format of the log can be changed at any time.
SetBinaryAnytime(s) == [s EXCEPT !.binary = TRUE]

\* The format has to be chosen before a log is opened.
SetBinary(s) == IF s.open THEN Refused(s) ELSE [s EXCEPT !.binary = TRUE]

\* An event for a flow that is not known yet makes one, with the limit in force,
\* before the rest of it is parsed.
Event(s, c) ==
  LET f == c.list[1][1]
      made == IF f \in Range(s.flows) THEN s
              ELSE [s EXCEPT !.flows = Append(@, f), !.queue = Append(@, s.value["QUEUE"])]
  IN [made EXCEPT !.ok = c.arg # "bad"]

\* An item of a list says "all", or a range of flows.
Within(item, f) == item[1] = 0 \/ f \in item[1]..item[2]
Places(s, item) == {i \in DOMAIN s.flows : Within(item, s.flows[i])}

\* The flows that the walk along flow_list comes to before it has found as many.
UpTo(s, item, count) ==
  {s.flows[i] : i \in {j \in Places(s, item) :
     item[1] = 0 \/ Cardinality({k \in Places(s, item) : k <= j}) <= count}}

\* Mutant: one flow less than the range has room for.
ReachedShort(s, item) == UpTo(s, item, item[2] - item[1])

\* The flows of a range: it has room for that many.
Reached(s, item) == UpTo(s, item, item[2] - item[1] + 1)

\* A list is gone through until an item is refused; what came before was done.
Apply(t, c, item) ==
  IF ~t.ok THEN t
  ELSE IF item[2] < item[1] THEN Refused(t)
  ELSE [t EXCEPT !.suspended =
          IF c.name = "SUSPEND" THEN @ \cup Reached(t, item) ELSE @ \ Reached(t, item)]

FlowCommand(s, c) ==
  LET after[n \in 0..Len(c.list)] == IF n = 0 THEN s ELSE Apply(after[n - 1], c, c.list[n])
  IN after[Len(c.list)]

\* PAUSE and RECONNECT look for one flow.
FindFlow(s, c) == IF c.list[1][1] \in Range(s.flows) THEN s ELSE Refused(s)

\* Every command but INPUT; DLOG is for those that override.
Command(before, c, override) ==
  LET s == [before EXCEPT !.ok = TRUE, !.given = Append(@, [command |-> c, override |-> override])]
  IN CASE c.name \in Checked -> SetChecked(s, c, override)
       [] c.name \in Guarded -> SetGuarded(s, c, override)
       [] c.name \in Flags -> SetFlag(s, c)
       [] c.name \in Switches -> SetSwitch(s, c)
       [] c.name \in LogCommands -> SetLog(s, c, override)
       [] c.name = "BINARY" -> SetBinary(s)
       [] c.name = "EVENT" -> Event(s, c)
       [] c.name \in FlowCommands -> FlowCommand(s, c)
       [] c.name \in {"PAUSE", "RECONNECT"} -> FindFlow(s, c)
       [] c.name = "DLOG" -> IF override /\ c.arg = "bad" THEN Refused(s) ELSE s
       [] OTHER -> s

\* A script ends at the first line that is refused, which refuses the INPUT; a
\* script that names another is left out.
ReadLine(t, line) == IF t.ok THEN Command(t, line, FALSE) ELSE t

Script(s, lines) ==
  LET after[n \in 0..Len(lines)] == IF n = 0 THEN s ELSE ReadLine(after[n - 1], lines[n])
  IN after[Len(lines)]

OnCommand(s, c, override) ==
  IF c.name # "INPUT" THEN Command(s, c, override)
  ELSE IF c.arg = "bad" THEN Refused(s)
  ELSE Script([s EXCEPT !.ok = TRUE], Scripts[c.arg])

-------------------------------------------------------------------------------
(***************************************************************************)
(* MgenApp                                                                 *)
(***************************************************************************)
Missing(c) == c.arg = "none" /\ c.name \notin NoArgument

\* MgenApp::OnCommand of a command that is this process' own.
Perform(c) ==
  /\ ~Missing(c)
  /\ mgen' = OnCommand(mgen, c, TRUE)

\* A core command without its argument: GetCmdName looks for its name in
\* COMMAND_LIST, of which EVENT is the first entry.
Name(c) ==
  /\ Missing(c)
  /\ app' = IF c.name = "EVENT" THEN (IF app = "startup" THEN "ended" ELSE app) ELSE "naming"
  /\ UNCHANGED mgen

\* The pointer into the list stays where it is.
GetCmdName == app = "naming" /\ UNCHANGED vars

\* A command of the command line. One that is refused ends the program, as does
\* HELP; after INSTANCE finds another mgen, commands are sent to that one.
Startup ==
  /\ app = "startup"
  /\ todo # << >>
  /\ LET c == Head(todo)
     IN CASE remote -> UNCHANGED <<mgen, app, remote>>
          [] ~remote /\ c.name = "INSTANCE" ->
               /\ remote' = Peer
               /\ UNCHANGED <<mgen, app>>
          [] ~remote /\ c.name \notin {"INSTANCE"} ->
               /\ \/ /\ Perform(c)
                     /\ app' = IF mgen'.ok /\ c.name # "HELP" THEN app ELSE "ended"
                  \/ Name(c)
               /\ UNCHANGED remote
  /\ todo' = Tail(todo)
  /\ UNCHANGED later

\* OnStartup ends: an mgen that sent its commands to another one is done.
Launch ==
  /\ app = "startup"
  /\ todo = << >>
  /\ app' = IF remote THEN "ended" ELSE "running"
  /\ UNCHANGED <<mgen, remote, todo, later>>

\* A command from the pipe or from the command input; no answer is sent.
\* INSTANCE, which would turn a running mgen into a sender, is left out.
Receive(c) ==
  /\ app = "running"
  /\ c.name # "INSTANCE"
  /\ later < MaxCommands
  /\ later' = later + 1
  /\ \/ Perform(c) /\ app' = IF c.name = "STOP" THEN "ended" ELSE app
     \/ Name(c)
  /\ UNCHANGED <<remote, todo>>

\* Something is logged.
Record ==
  /\ app = "running"
  /\ mgen.logFile \in LogFiles
  /\ mgen' = [mgen EXCEPT !.contents[mgen.logFile] =
                @ \cup {IF mgen.binary THEN "binary" ELSE "text"}]
  /\ UNCHANGED <<app, remote, todo, later>>

Next == Startup \/ Launch \/ (\E c \in Menu : Receive(c)) \/ Record \/ GetCmdName

Spec == Init /\ [][Next]_vars

\* The process runs on whatever it is doing.
FairSpec == Spec /\ WF_vars(Startup) /\ WF_vars(GetCmdName)

-------------------------------------------------------------------------------
TypeOK ==
  /\ \A n \in Settings : mgen.value[n] \in STRING
  /\ \A n \in DOMAIN mgen.lock : mgen.lock[n] \in BOOLEAN
  /\ mgen.suspended \subseteq Range(mgen.flows)
  /\ Len(mgen.queue) = Len(mgen.flows)
  /\ app \in {"startup", "running", "naming", "ended"}
  /\ \A f \in LogFiles : mgen.contents[f] \subseteq {"text", "binary"}

\* The commands given that set n, and of some the argument of the last, "default" of none.
Setting(given, n) ==
  {i \in DOMAIN given : given[i].command.name = n /\ given[i].command.arg # "bad"}
LastOf(given, places) == IF places = {} THEN "default" ELSE given[Max(places)].command.arg

\* What the command line or remote control gave last, otherwise what scripts gave last.
InForce(given, n) ==
  LET overriding == {i \in Setting(given, n) : given[i].override}
  IN LastOf(given, IF overriding # {} THEN overriding ELSE Setting(given, n))

\* A setting is what the command line or remote control gave last, whatever
\* scripts say and whenever they are read; otherwise what scripts gave last.
Overrides ==
  \A n \in (Checked \cup Guarded) \ {"RXBUFFER"} : mgen.value[n] = InForce(mgen.given, n)

\* However logs are opened, closed and opened again, by scripts and by commands,
\* no log file gets records of both formats.
OneFormat == \A f \in LogFiles : Cardinality(mgen.contents[f]) < 2

\* c has an item with f before any that is refused.
Tells(c, f) ==
  /\ c.name \in FlowCommands
  /\ \E i \in DOMAIN c.list :
       /\ \A j \in 1..i : c.list[j][1] <= c.list[j][2]
       /\ Within(c.list[i], f)

Makes(c, f) == c.name = "EVENT" /\ c.list[1][1] = f

\* The commands that tell something to f, of those given since there is such a flow.
Telling(given, f) ==
  {i \in DOMAIN given : Tells(given[i].command, f) /\ \E j \in 1..(i - 1) : Makes(given[j].command, f)}

\* A flow is suspended exactly when the last item that came to be looked at, of
\* the lists given since there is such a flow, and that has the flow, said so.
SuspendedAsTold ==
  \A f \in Range(mgen.flows) :
    LET telling == Telling(mgen.given, f)
    IN f \in mgen.suspended <=>
         \E i \in telling : /\ \A j \in telling : j <= i
                            /\ mgen.given[i].command.name = "SUSPEND"

\* Every command is answered: none keeps mgen busy for ever.
Answered == app = "naming" ~> app # "naming"

\* A flow without a limit of its own has the one of the command line, which
\* overrides that of scripts: not so for the flows of a script that is read first.
QueueOverridden ==
  app = "running" /\ later = 0 =>
    LET of == SelectSeq(mgen.given, LAMBDA g : g.command.name = "QUEUE" /\ g.override)
    IN of # << >> =>
         \A i \in DOMAIN mgen.flows : mgen.queue[i] = Last(of).command.arg
================================================================================
