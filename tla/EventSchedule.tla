---------------------------- MODULE EventSchedule ----------------------------
(***************************************************************************)
(* The schedule of mgen: every flow has a list of ON, MOD and OFF events   *)
(* with a timer for the next one, and Mgen has such a list and timer for    *)
(* the reception events (LISTEN, JOIN, ...), here the list of Drec.        *)
(* Events come from the script, before Start, and from commands while mgen *)
(* runs.  No clock of the script is kept: the current offset is read off   *)
(* whichever timer is found active, or off the last event left in a list.  *)
(*                                                                         *)
(* What an event does is in UdpFlows and Reception; here it is executed.   *)
(* Times are whole.  An event without <eventTime> has the time Immediate.  *)
(* Events are validated nowhere (mgenFlow.cpp without                      *)
(* ENABLE_EVENT_VALIDATION, the build of the makefiles), and events of     *)
(* flows leave their list when they have been executed.                    *)
(***************************************************************************)
EXTENDS Integers, SequencesExt, FiniteSetsExt

CONSTANTS Flow,       \* the flows of the script and of commands
          Drec,       \* the owner of the list of reception events, not a flow
          Times,      \* values of <eventTime>, numbers
          Offsets,    \* values of the OFFSET command, numbers
          StartDelays,\* time until an absolute START, in one command, not 0
          LateNow,    \* START NOW may come when mgen waits to start or runs
          LateFlows,  \* commands may make flows where there is an OFFSET
          RetryDelays,\* delays after which a TCP flow connects again
          LateRetries,\* also with an OFFSET, or while events are to come
          MaxEvents,  \* bound of an instance on the events inserted
          MaxStarts   \* bound of an instance on the START commands

Immediate == -1  \* the time of an event without <eventTime>
NoOffset == -1
Owner == Flow \cup {Drec}

Never == -1     \* a timer that is not active; a time not fixed yet
NoEvent == 0    \* the NULL pointer

VARIABLES offset,     \* Mgen::offset, from the OFFSET command
          now,        \* the system clock
          mgenStarted,\* Mgen::started
          startTimer, \* when start_timer fires
          starts,     \* the START commands so far
          event,      \* the events inserted: owner, time (event_time), whether
                      \* they are from the script, when they should be executed,
                      \* how often they were and when
          flows,      \* flow_list, in order of creation
          list,       \* event_list of each flow, drec_event_list
          next,       \* next_event, next_drec_event
          timer,      \* when event_timer or drec_event_timer fires
          started,    \* MgenFlow::started
          stopped     \* after Mgen::Stop

timerVars == <<offset, now, mgenStarted, startTimer, starts>>
listVars == <<event, flows, list, next, timer, started>>
vars == <<timerVars, listVars, stopped>>

Init ==
  /\ offset \in Offsets \cup {NoOffset}
  /\ now = 0
  /\ mgenStarted = FALSE
  /\ startTimer = Never
  /\ starts = 0
  /\ event = << >>
  /\ flows = << >>
  /\ list = [o \in Owner |-> << >>]
  /\ next = [o \in Owner |-> NoEvent]
  /\ timer = [o \in Owner |-> Never]
  /\ started = [f \in Flow |-> FALSE]
  /\ stopped = FALSE

ReallyStarted == mgenStarted /\ startTimer = Never

(***************************************************************************)
(* MgenEventList.  Insert goes behind the events of the same time; Precede *)
(* goes in front of a given event, or to the end if there is none.         *)
(***************************************************************************)
\* Mutant: in front of the events of the same time, executed ones included.
InsertInFront(l, e, t) ==
  LET later == {i \in DOMAIN l : t <= event[l[i]].time}
  IN InsertAt(l, IF later = {} THEN Len(l) + 1 ELSE Min(later), e)

InsertByTime(l, e, t) ==
  LET later == {i \in DOMAIN l : t < event[l[i]].time}
  IN InsertAt(l, IF later = {} THEN Len(l) + 1 ELSE Min(later), e)

Position(l, e) == CHOOSE i \in DOMAIN l : l[i] = e

Precede(l, before, e) ==
  InsertAt(l, IF before = NoEvent THEN Len(l) + 1 ELSE Position(l, before), e)

Following(l, e) ==
  LET i == Position(l, e)
  IN IF i < Len(l) THEN l[i + 1] ELSE NoEvent

(***************************************************************************)
(* GetCurrentOffset of a flow, of the list of flows (the first whose timer *)
(* is active decides) and of Mgen.                                         *)
(***************************************************************************)
TailTime(o) == IF list[o] = << >> THEN -1 ELSE event[Last(list[o])].time

TimerOffset(o) == event[next[o]].time - (timer[o] - now)

FlowOffset(f) ==
  IF ~started[f] THEN -1
  ELSE IF next[f] # NoEvent THEN TimerOffset(f) ELSE TailTime(f)

FlowListOffset ==
  LET ticking == {i \in DOMAIN flows : timer[flows[i]] # Never}
  IN IF ticking # {} THEN FlowOffset(flows[Min(ticking)])
     ELSE Max({-1} \cup {FlowOffset(flows[i]) : i \in DOMAIN flows})

GetCurrentOffset ==
  IF next[Drec] # NoEvent THEN TimerOffset(Drec)
  ELSE Max({TailTime(Drec), FlowListOffset})

CurrentTime == IF ReallyStarted THEN Max({GetCurrentOffset, 0}) ELSE 0

(***************************************************************************)
(* Events.  expected is when the documents want the event executed: from   *)
(* the script, at its time after the start; from a command, after the      *)
(* delay it gives.                                                         *)
(***************************************************************************)
Record(o, t, expected, at) ==
  [owner |-> o, scripted |-> ~ReallyStarted, time |-> t, expected |-> expected,
   count |-> IF at = Never THEN 0 ELSE 1, at |-> at]

Execute(ev, e) == [ev EXCEPT ![e].count = @ + 1, ![e].at = now]

NextId == Len(event) + 1

\* ParseEvent makes the flow the first event of which it reads.
FlowsWith(o) == IF o = Drec \/ o \in ToSet(flows) THEN flows ELSE Append(flows, o)

(***************************************************************************)
(* InsertEvent and InsertDrecEvent before the start: the event waits in    *)
(* its list.                                                               *)
(***************************************************************************)

ParsedTime(t) == Max({t, 0})

Parse(o, t) ==
  LET time == ParsedTime(t)
  IN /\ ~stopped /\ ~ReallyStarted
     /\ Len(event) < MaxEvents
     /\ event' = Append(event, Record(o, time, Never, Never))
     /\ flows' = FlowsWith(o)
     /\ list' = [list EXCEPT ![o] = InsertByTime(@, NextId, time)]
     /\ UNCHANGED <<timerVars, next, timer, started, stopped>>

\* Mutant: the timer goes on for the event it was started for.
ArmWhenIdle(o, e, time, current) ==
  IF timer[o] # Never
  THEN /\ next' = [next EXCEPT ![o] = IF time < event[@].time THEN e ELSE @]
       /\ UNCHANGED timer
  ELSE /\ next' = [next EXCEPT ![o] = e]
       /\ timer' = [timer EXCEPT ![o] = now + (time - current)]

\* Mutant: an earlier event does not take the place of the next one.
ArmForNext(o, e, time, current) ==
  IF timer[o] # Never
  THEN UNCHANGED <<next, timer>>
  ELSE /\ next' = [next EXCEPT ![o] = e]
       /\ timer' = [timer EXCEPT ![o] = now + (time - current)]

(***************************************************************************)
(* The timer is started, or moved if the new event is earlier than the one *)
(* it was started for.                                                     *)
(***************************************************************************)
Arm(o, e, time, current) ==
  IF timer[o] # Never /\ time >= event[next[o]].time
  THEN UNCHANGED <<next, timer>>
  ELSE /\ next' = [next EXCEPT ![o] = e]
       /\ timer' = [timer EXCEPT ![o] = now + (time - current)]

(***************************************************************************)
(* InsertEvent while mgen runs.  The time is one of the script, whatever   *)
(* the documents say; if it has passed, the event is executed and leaves   *)
(* the list again.  A flow a command has made is not started, and so has   *)
(* no clock.                                                               *)
(***************************************************************************)
CommandFlow(f, t) ==
  /\ ~stopped /\ ReallyStarted
  /\ Len(event) < MaxEvents
  /\ f \in ToSet(flows) \/ offset = NoOffset \/ LateFlows
  /\ flows' = FlowsWith(f)
  /\ \/ /\ t < CurrentTime
        /\ event' = Append(event, Record(f, CurrentTime, now, now))
        /\ UNCHANGED <<list, next, timer>>
     \/ /\ t >= CurrentTime
        /\ event' = Append(event, Record(f, t, now + t, Never))
        /\ list' = [list EXCEPT ![f] = InsertByTime(@, NextId, t)]
        /\ Arm(f, NextId, t, CurrentTime)
  /\ UNCHANGED <<timerVars, started, stopped>>

(***************************************************************************)
(* A TCP transport that lost its connection inserts a RECONNECT for each   *)
(* flow on it (and an Immediate PAUSE, which is executed at once).  Its    *)
(* delay is both the time it has in the list and, the current time being   *)
(* taken for 0, the interval of the timer.                                 *)
(***************************************************************************)
ScheduleReconnect(f, delay) ==
  /\ ~stopped /\ ReallyStarted
  /\ f \in ToSet(flows)
  /\ LateRetries \/ (offset = NoOffset /\ \A o \in Owner : timer[o] = Never)
  /\ Len(event) < MaxEvents
  /\ event' = Append(event, Record(f, delay, now + delay, Never))
  /\ list' = [list EXCEPT ![f] = InsertByTime(@, NextId, delay)]
  /\ Arm(f, NextId, delay, 0)
  /\ UNCHANGED <<timerVars, flows, started, stopped>>

(***************************************************************************)
(* ParseEvent adds the current offset to the time of a reception event, so *)
(* that an Immediate one is before it.                                     *)
(***************************************************************************)
CommandDrec(t) ==
  LET time == CurrentTime + t
  IN /\ ~stopped /\ ReallyStarted
     /\ Len(event) < MaxEvents
     /\ \/ /\ time < CurrentTime
           /\ event' = Append(event, Record(Drec, CurrentTime, now, now))
           /\ list' = [list EXCEPT ![Drec] = Precede(@, next[Drec], NextId)]
           /\ UNCHANGED <<next, timer>>
        \/ /\ time >= CurrentTime
           /\ event' = Append(event, Record(Drec, time, now + t, Never))
           /\ list' = [list EXCEPT ![Drec] = InsertByTime(@, NextId, time)]
           /\ Arm(Drec, NextId, time, CurrentTime)
     /\ UNCHANGED <<timerVars, flows, started, stopped>>

(***************************************************************************)
(* Start.  The events up to the offset are executed at once, those of      *)
(* flows included stay in the list, and the timer is for the first after.  *)
(* A flow without events is not started.                                   *)
(***************************************************************************)
Later(o) == {i \in DOMAIN list[o] : event[list[o][i]].time > offset}

Passed(o) == {list[o][i] : i \in {i \in DOMAIN list[o] : \A j \in Later(o) : i < j}}

FirstAfter(o) ==
  LET later == Later(o)
  IN IF later = {} THEN NoEvent ELSE list[o][Min(later)]

StartLists ==
  LET base   == Max({offset, 0})
      first  == [o \in Owner |-> FirstAfter(o)]
      passed == UNION {Passed(o) : o \in Owner}
      due(e) == now + Max({0, event[e].time - base})
      begun  == [e \in DOMAIN event |-> IF event[e].expected # Never THEN event[e]
                                        ELSE [event[e] EXCEPT !.expected = due(e)]]
  IN /\ event' = [e \in DOMAIN event |->
          IF e \in passed THEN [begun[e] EXCEPT !.count = @ + 1, !.at = now] ELSE begun[e]]
     /\ next' = first
     /\ timer' = [o \in Owner |-> IF first[o] = NoEvent THEN timer[o]
                                  ELSE now + (event[first[o]].time - base)]
     /\ started' = [f \in Flow |-> started[f] \/ list[f] # << >>]

StartNow ==
  /\ StartLists
  /\ mgenStarted' = TRUE

(***************************************************************************)
(* The call of Start by the application, and START commands.  An absolute  *)
(* time starts start_timer, or moves it.  START NOW leaves it alone.       *)
(***************************************************************************)
StartImmediately ==
  /\ ~stopped /\ starts < MaxStarts
  /\ ~mgenStarted \/ LateNow
  /\ starts' = starts + 1
  /\ StartNow
  /\ UNCHANGED <<offset, now, startTimer, flows, list, stopped>>

StartAt(delay) ==
  /\ ~stopped /\ starts < MaxStarts
  /\ ~ReallyStarted
  /\ starts' = starts + 1
  /\ startTimer' = now + delay
  /\ mgenStarted' = TRUE
  /\ UNCHANGED <<offset, now, listVars, stopped>>

OnStartTimeout ==
  /\ startTimer = now
  /\ startTimer' = Never
  /\ StartNow
  /\ UNCHANGED <<offset, now, starts, flows, list, stopped>>

(***************************************************************************)
(* OnEventTimeout and OnDrecEventTimeout: the next event is executed and   *)
(* the timer started for the one behind it, from the time it was due.      *)
(***************************************************************************)
OnTimeout(o) ==
  LET e == next[o]
      f == Following(list[o], e)
  IN /\ timer[o] = now
     /\ event' = Execute(event, e)
     /\ list' = IF o = Drec THEN list ELSE [list EXCEPT ![o] = RemoveAt(@, Position(@, e))]
     /\ next' = [next EXCEPT ![o] = f]
     /\ timer' = [timer EXCEPT ![o] =
          IF f = NoEvent THEN Never
          ELSE now + Max({0, event[f].time - event[e].time})]
     /\ UNCHANGED <<timerVars, flows, started, stopped>>

(***************************************************************************)
(* Stop forgets the flows and all events.                                  *)
(***************************************************************************)
Stop ==
  /\ ~stopped /\ mgenStarted
  /\ stopped' = TRUE
  /\ mgenStarted' = FALSE
  /\ startTimer' = Never
  /\ list' = [o \in Owner |-> << >>]
  /\ next' = [o \in Owner |-> NoEvent]
  /\ timer' = [o \in Owner |-> Never]
  /\ flows' = << >>
  /\ UNCHANGED <<offset, now, starts, event, started>>

\* Time passes until a timer is due; without one nothing tells times apart.
Active == {t \in {timer[o] : o \in Owner} \cup {startTimer} : t # Never}

Tick ==
  /\ Active # {} /\ now < Min(Active)
  /\ now' = now + 1
  /\ UNCHANGED <<offset, mgenStarted, startTimer, starts, listVars, stopped>>

Insert ==
  \/ \E f \in Flow, t \in Times \cup {Immediate} : Parse(f, t) \/ CommandFlow(f, t)
  \/ \E t \in Times \cup {Immediate} : Parse(Drec, t) \/ CommandDrec(t)
  \/ \E f \in Flow, delay \in RetryDelays : ScheduleReconnect(f, delay)

Timeouts == OnStartTimeout \/ \E o \in Owner : OnTimeout(o)

Next ==
  \/ Insert
  \/ StartImmediately
  \/ \E delay \in StartDelays : StartAt(delay)
  \/ Timeouts
  \/ Stop
  \/ Tick

Spec == Init /\ [][Next]_vars

(***************************************************************************)
(* The clock runs, and the dispatcher calls the handler of a timer that is *)
(* due.                                                                    *)
(***************************************************************************)
Fairness == WF_vars(Tick) /\ WF_vars(Timeouts)

FairSpec == Spec /\ Fairness

-------------------------------------------------------------------------------
TypeOK ==
  /\ offset \in Nat \cup {NoOffset}
  /\ now \in Nat
  /\ mgenStarted \in BOOLEAN
  /\ startTimer \in Nat \cup {Never}
  /\ starts \in 0..MaxStarts
  /\ Len(event) <= MaxEvents
  /\ \A e \in DOMAIN event :
       event[e] \in [owner : Owner, time : Nat, count : Nat, scripted : BOOLEAN, expected : Nat \cup {Never}, at : Nat \cup {Never}]
  /\ ToSet(flows) \subseteq Flow
  /\ \A o \in Owner : ToSet(list[o]) \subseteq DOMAIN event
  /\ next \in [Owner -> DOMAIN event \cup {NoEvent}]
  /\ timer \in [Owner -> Nat \cup {Never}]
  /\ started \in [Flow -> BOOLEAN]
  /\ stopped \in BOOLEAN

(***************************************************************************)
(* No event is lost or executed twice, whatever is inserted while the      *)
(* lists are walked: those a timer has still to come to are behind the     *)
(* next one in their list, in order of time, and all others have been      *)
(* executed once (InsertEvent, OnEventTimeout, Start).                     *)
(***************************************************************************)
ToCome(o) ==
  IF next[o] = NoEvent THEN << >>
  ELSE SubSeq(list[o], Position(list[o], next[o]), Len(list[o]))

OnceInOrder ==
  /\ ReallyStarted =>
       \A e \in DOMAIN event :
         event[e].count = IF e \in ToSet(ToCome(event[e].owner)) THEN 0 ELSE 1
  /\ \A o \in Owner :
       /\ timer[o] # Never <=> next[o] # NoEvent
       /\ \A i, j \in DOMAIN ToCome(o) :
            i < j => event[ToCome(o)[i]].time <= event[ToCome(o)[j]].time

(***************************************************************************)
(* An event is executed when it should be: those of the script at their    *)
(* time from the start, in spite of what commands insert in between, and   *)
(* reception events of commands after their delay, in spite of a current   *)
(* offset that is read off timers and stands still without one.            *)
(***************************************************************************)
Punctual(e) ==
  LET ev == event[e]
  IN ev.expected # Never /\ ~stopped =>
       IF ev.at = Never THEN now <= ev.expected ELSE ev.at = ev.expected

OnTime ==
  \A e \in DOMAIN event :
    event[e].owner = Drec \/ event[e].scripted => Punctual(e)

(***************************************************************************)
(* Once started, mgen executes every event, or is stopped.                 *)
(***************************************************************************)
AllExecuted ==
  \A e \in 1..MaxEvents :
    (mgenStarted /\ e \in DOMAIN event) ~>
      (stopped \/ (e \in DOMAIN event /\ event[e].count > 0))
================================================================================
