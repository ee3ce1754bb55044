-------------------------------- MODULE Patterns -------------------------------
(***************************************************************************)
(* MgenPattern: the intervals a flow takes from its pattern, one call of   *)
(* GetPktInterval per message, and who owns the inner pattern of a BURST.  *)
(* A flow copies the pattern of each event that has one; the copy has the  *)
(* inner pattern of the event, which a copy deletes with itself.           *)
(***************************************************************************)
EXTENDS Integers, Sequences

CONSTANTS Pattern,      \* the patterns of ON lines
          Changed,      \* the patterns of MOD lines
          Draws,        \* numbers an exponential distribution may give
          Delays,       \* time that may pass until an unlimited flow sends again
          MaxCalls      \* bound of an instance

VARIABLES events,       \* the patterns of the flow's events, an ON and a MOD
          freed,        \* events whose inner pattern was deleted
          current,      \* the event whose pattern the flow has, or 0
          remainder,    \* interval_remainder
          duration,     \* burst_duration
          lastTime,     \* last_time, or -1 for none
          innerLeft,    \* interval_remainder of the inner pattern
          clock,        \* time since the pattern began, as its intervals tell it
          calls,        \* intervals given
          lastInterval, \* the last of them
          started,      \* when the burst began
          previous,     \* when the burst before it began, and how long it was to last
          crashed       \* was a deleted pattern used?

vars == <<events, freed, current, remainder, duration, lastTime, innerLeft, clock, calls,
          lastInterval, started, previous, crashed>>

NoBurst == [start |-> 0, interval |-> 0, duration |-> 0, last |-> 0]

Init ==
  /\ events \in Pattern \X Changed
  /\ freed = {}
  /\ current = 0
  /\ remainder = 0 /\ duration = 0 /\ lastTime = -1 /\ innerLeft = 0
  /\ clock = 0 /\ calls = 0 /\ lastInterval = 0 /\ started = 0
  /\ previous = NoBurst
  /\ crashed = FALSE

-------------------------------------------------------------------------------
Exponential(mean) == IF mean > 0 THEN Draws ELSE {0}

Drawn(p) == IF p.exponential THEN Exponential(p.duration) ELSE {p.duration}

\* DoGenericEvent copies the pattern, as it was when the line was read.
Copy(e) ==
  /\ current' = e
  /\ IF events[e].type = "BURST"
     THEN \E d \in Drawn(events[e]) : duration' = d /\ remainder' = d
     ELSE duration' = 0 /\ remainder' = 0
  /\ lastTime' = -1
  /\ innerLeft' = 0
  /\ clock' = 0 /\ calls' = 0 /\ lastInterval' = 0 /\ started' = 0 /\ previous' = NoBurst

On == current = 0 /\ Copy(1) /\ UNCHANGED <<events, freed, crashed>>

\* DoModEvent looks at a copy of its own first, to see whether the flow pauses;
\* that copy takes the inner pattern with it.
Mod ==
  /\ current = 1
  /\ Copy(2)
  /\ freed' = IF events[2].type = "BURST" THEN freed \cup {2} ELSE freed
  /\ UNCHANGED <<events, crashed>>

-------------------------------------------------------------------------------
JitterLeft(p, u) == p.interval - u

JitterRange(p) == IF p.interval > 0 THEN (p.interval - p.jitter)..(p.interval + p.jitter)
                  ELSE {p.interval}

\* The intervals a pattern other than BURST may give, and what it keeps.
Simple(p, left) ==
  CASE p.type = "PERIODIC" -> {<<p.interval, left>>}
    [] p.type = "POISSON" -> IF p.interval > 0 THEN {<<d, left>> : d \in Draws}
                             ELSE {<<p.interval, left>>}
    [] p.type = "JITTER" -> {<<u + left, JitterLeft(p, u)>> : u \in JitterRange(p)}

Give(interval) ==
  /\ lastInterval' = interval
  /\ clock' = IF interval > 0 THEN clock + interval ELSE clock
  /\ calls' = calls + 1

GetSimple(p) ==
  /\ p.type # "BURST"
  /\ \E s \in Simple(p, remainder) : Give(s[1]) /\ remainder' = s[2]
  /\ UNCHANGED <<duration, lastTime, innerLeft, started, previous>>

\* Mutant: what is left of the burst is not added.
NextBurstEarly(b) == IF b > duration THEN b - duration ELSE remainder
\* The interval from now, the end of a burst, to the next one.
NextBurst(b) == IF b > duration THEN b - duration + remainder ELSE remainder

BurstIntervals(p) == IF p.random THEN Exponential(p.interval) ELSE {p.interval}

Later(a, b) == IF a > b THEN a ELSE b

\* The burst has finished: the next one begins with the message the interval leads
\* to, and gets its duration.
EndBurst(p, inner) ==
  \E b \in BurstIntervals(p), d \in Drawn(p) :
    /\ Give(Later(inner, NextBurst(b)))
    /\ duration' = d
    /\ remainder' = d
    /\ started' = clock'
    /\ previous' = [start |-> started, interval |-> b, duration |-> duration, last |-> clock]

\* Messages at intervals use up the burst.
PacedBurst(p, inner) ==
  /\ inner > 0
  /\ IF remainder > inner
     THEN Give(inner) /\ remainder' = remainder - inner /\ UNCHANGED <<duration, started, previous>>
     ELSE EndBurst(p, inner)
  /\ UNCHANGED lastTime

\* Messages as fast as possible, or none, use up the burst by the system's time:
\* that which has passed since the last call.
UnpacedBurst(p, inner) ==
  /\ inner <= 0
  /\ \E delay \in Delays :
       LET delta == IF lastTime = -1 THEN 0 ELSE delay
       IN IF remainder > delta
          THEN /\ lastTime' = 0
               /\ remainder' = remainder - delta
               /\ clock' = clock + delta /\ calls' = calls + 1 /\ lastInterval' = inner
               /\ UNCHANGED <<duration, started, previous>>
          ELSE lastTime' = -1 /\ EndBurst(p, inner)

GetBurst(p) ==
  /\ p.type = "BURST"
  /\ \E s \in Simple(p.inner, innerLeft) :
       /\ innerLeft' = s[2]
       /\ PacedBurst(p, s[1]) \/ UnpacedBurst(p, s[1])

\* A flow that was paused asks no more.
GetPktInterval ==
  /\ current # 0
  /\ calls < MaxCalls
  /\ lastInterval >= 0
  /\ ~crashed
  /\ IF events[current].type = "BURST" /\ current \in freed
     THEN /\ crashed' = TRUE
          /\ UNCHANGED <<remainder, duration, lastTime, innerLeft, clock, calls, lastInterval,
                         started, previous>>
     ELSE (GetSimple(events[current]) \/ GetBurst(events[current])) /\ UNCHANGED crashed
  /\ UNCHANGED <<events, freed, current>>

Next == On \/ Mod \/ GetPktInterval

Spec == Init /\ [][Next]_vars

-------------------------------------------------------------------------------
TypeOK ==
  /\ current \in 0..2
  /\ freed \subseteq 1..2
  /\ clock \in Nat /\ started \in 0..clock
  /\ calls \in 0..MaxCalls

Now == events[current]

\* Bursts begin an interval apart, or right after the last message where that was
\* later; a burst sends nothing once its duration is over; and jitter does not add
\* up.
Paced ==
  current # 0 =>
    /\ (Now.type = "BURST" /\ previous.interval > previous.duration /\ Now.inner.type = "PERIODIC") =>
         IF Now.inner.interval > 0
         THEN started = Later(previous.start + previous.interval, previous.last + Now.inner.interval)
         ELSE started >= previous.start + previous.interval
    /\ (Now.type = "BURST" /\ clock > started) => clock - started < duration
    /\ (Now.type = "JITTER" /\ Now.interval > 0) =>
         /\ clock - calls * Now.interval <= Now.jitter
         /\ calls * Now.interval - clock <= Now.jitter

\* A pattern has its inner pattern when an interval is asked of it: not so after
\* a MOD that changes a BURST.
InnerAlive == ~crashed

\* The interval between messages of a JITTER flow is within the fraction of its
\* rate: not so, what one takes more the next one takes less.
JitterWithin ==
  (current # 0 /\ calls > 0 /\ Now.type = "JITTER" /\ Now.interval > 0) =>
    lastInterval \in JitterRange(Now)
================================================================================
