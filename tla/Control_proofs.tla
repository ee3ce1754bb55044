---------------------------- MODULE Control_proofs -----------------------------
(***************************************************************************)
(* What controls mgen, for all patterns that a line may give, all menus of *)
(* commands and all scripts, and any number of messages.  Jitter does not  *)
(* add up, and bursts keep their pace and their length (Patterns, which is *)
(* Pace in MCControl).  What overrides goes on doing so, a log has one     *)
(* format, and flows are suspended as they were told (Commands, which is   *)
(* Given there).  The lines of events and receptions mean what they say    *)
(* (EventLine and DrecLine, which are Line and Drecs).  And scripts, the   *)
(* commands that come in and traces are read as they were written          *)
(* (ScriptReader, CommandInput and Traces, which are Script, Input and     *)
(* Cloning).                                                               *)
(***************************************************************************)
EXTENDS MCControl, SequenceTheorems, FiniteSetTheorems, WellFoundedInduction, NaturalsInduction,
        TLAPS

(***************************************************************************)
(* Patterns.                                                               *)
(***************************************************************************)
\* The patterns that MgenPattern::InitFromString accepts: a fraction of JITTER is at
\* most a half, and burst intervals and durations are not negative.  A burst of
\* bursts is left out, as in Patterns.
IsSimple(p) ==
  /\ p.type \in {"PERIODIC", "POISSON", "JITTER"}
  /\ p.interval \in Int
  /\ (p.type = "JITTER" /\ p.interval > 0) => p.jitter \in Nat /\ 2 * p.jitter <= p.interval

IsBurst(p) ==
  /\ p.type = "BURST"
  /\ p.interval \in Nat /\ p.duration \in Nat
  /\ p.random \in BOOLEAN /\ p.exponential \in BOOLEAN
  /\ IsSimple(p.inner)

Proper == \A p \in Pattern \cup Changed : IsSimple(p) \/ IsBurst(p)

\* A JITTER pattern keeps what the last interval was short of its own turn.
OnTurn(p) ==
  (p.type = "JITTER" /\ p.interval > 0) =>
    /\ clock = calls * p.interval - remainder
    /\ remainder \in (0 - p.jitter)..p.jitter

\* A burst keeps what is left of it.
InBurst(p) ==
  p.type = "BURST" =>
    /\ clock - burstStarted + remainder = duration
    /\ remainder >= 0
    /\ clock > burstStarted => remainder > 0

\* Where the burst began, by the one before it.
Begun(p) ==
  (p.type = "BURST" /\ previous.interval > previous.duration /\ p.inner.type = "PERIODIC") =>
    IF p.inner.interval > 0
    THEN burstStarted =
           Pace!Later(previous.start + previous.interval, previous.last + p.inner.interval)
    ELSE burstStarted >= previous.start + previous.interval

Numbers ==
  /\ current \in 0..2
  /\ events \in Pattern \X Changed
  /\ remainder \in Int /\ duration \in Nat /\ innerLeft \in Int
  /\ clock \in Nat /\ calls \in Nat /\ burstStarted \in 0..clock
  /\ previous.interval \in Int /\ previous.duration \in Int
  /\ previous.start \in Int /\ previous.last \in Int

\* The inductive invariant.
Kept == Numbers /\ (current # 0 => OnTurn(Pace!Now) /\ InBurst(Pace!Now) /\ Begun(Pace!Now))

LEMMA KeptPaced ==
  ASSUME Proper, Kept
  PROVE  Pace!Paced
<1> SUFFICES ASSUME current # 0 PROVE Pace!Paced
  BY DEF Pace!Paced
<1>1. OnTurn(Pace!Now) /\ InBurst(Pace!Now) /\ Begun(Pace!Now) /\ Numbers
  BY DEF Kept
<1>2. Pace!Now \in Pattern \cup Changed
  BY <1>1 DEF Numbers, Pace!Now
<1>3. IsSimple(Pace!Now) \/ IsBurst(Pace!Now)
  BY ControlAssumption, <1>2 DEF Proper
<1>4. (Pace!Now.type = "BURST" /\ clock > burstStarted) => clock - burstStarted < duration
  BY <1>1 DEF InBurst, Numbers
<1>5. ASSUME Pace!Now.type = "JITTER", Pace!Now.interval > 0
      PROVE  /\ clock - calls * Pace!Now.interval <= Pace!Now.jitter
             /\ calls * Pace!Now.interval - clock <= Pace!Now.jitter
  <2>1. Pace!Now.jitter \in Nat /\ Pace!Now.interval \in Int
    BY <1>3, <1>5 DEF IsSimple, IsBurst
  <2> DEFINE turns == calls * Pace!Now.interval
  <2>2. /\ turns \in Int /\ clock = turns - remainder
        /\ remainder \in (0 - Pace!Now.jitter)..Pace!Now.jitter
    BY <1>1, <1>5, <2>1 DEF OnTurn, Numbers
  <2> HIDE DEF turns
  <2>3. clock - turns <= Pace!Now.jitter /\ turns - clock <= Pace!Now.jitter
    BY <1>1, <2>1, <2>2 DEF Numbers
  <2> QED
    BY <2>3 DEF turns
<1> QED
  BY <1>1, <1>4, <1>5 DEF Pace!Paced, Begun

LEMMA KeptInit ==
  ASSUME Pace!Init
  PROVE  Kept
BY DEF Pace!Init, Kept, Numbers, Pace!NoBurst

-------------------------------------------------------------------------------
(* A pattern that a flow copies begins anew.                               *)

LEMMA DrawnNat ==
  ASSUME Proper, NEW p, IsBurst(p), NEW d \in Pace!Drawn(p)
  PROVE  d \in Nat
BY ControlAssumption DEF Pace!Drawn, Pace!Exponential, Proper, IsBurst

LEMMA CopyKept ==
  ASSUME Proper, Kept, NEW e \in 1..2, Pace!Copy(e), UNCHANGED events
  PROVE  Kept'
<1>1. events[e] \in Pattern \cup Changed
  BY DEF Kept, Numbers
<1>2. IsSimple(events[e]) \/ IsBurst(events[e])
  BY ControlAssumption, <1>1 DEF Proper
<1>3. /\ current' = e /\ innerLeft' = 0 /\ clock' = 0 /\ calls' = 0 /\ burstStarted' = 0
      /\ previous' = Pace!NoBurst
  BY DEF Pace!Copy
<1>4. CASE events[e].type = "BURST"
  <2>1. PICK d \in Pace!Drawn(events[e]) : duration' = d /\ remainder' = d
    BY <1>4 DEF Pace!Copy
  <2>2. d \in Nat
    BY <1>2, <1>4, DrawnNat DEF IsSimple
  <2> QED
    BY <1>3, <1>4, <2>1, <2>2 DEF Kept, Numbers, Pace!NoBurst, Pace!Now, OnTurn, InBurst, Begun
<1>5. CASE events[e].type # "BURST"
  <2>1. duration' = 0 /\ remainder' = 0
    BY <1>5 DEF Pace!Copy
  <2>2. (events[e].type = "JITTER" /\ events[e].interval > 0) =>
           events[e].jitter \in Nat /\ events[e].interval \in Int
    BY <1>2 DEF IsSimple, IsBurst
  <2>3. Numbers'
    BY <1>3, <2>1 DEF Kept, Numbers, Pace!NoBurst
  <2>4. OnTurn(Pace!Now)'
    BY <1>3, <2>1, <2>2 DEF OnTurn, Pace!Now
  <2> QED
    BY <1>3, <1>5, <2>3, <2>4 DEF Kept, Pace!Now, InBurst, Begun
<1> QED
  BY <1>4, <1>5

-------------------------------------------------------------------------------
(* An interval of a pattern that is no BURST.                              *)

LEMMA SimpleInt ==
  ASSUME Proper, NEW p, IsSimple(p), NEW left \in Int, NEW s \in Pace!Simple(p, left)
  PROVE  s[1] \in Int /\ s[2] \in Int
<1>1. CASE p.type = "PERIODIC"
  BY <1>1 DEF Pace!Simple, IsSimple
<1>2. CASE p.type = "POISSON"
  <2>1. s \in (IF p.interval > 0 THEN {<<d, left>> : d \in Draws} ELSE {<<p.interval, left>>})
    BY <1>2 DEF Pace!Simple
  <2> QED
    BY ControlAssumption, <2>1 DEF IsSimple, Proper
<1>3. CASE p.type = "JITTER"
  <2>1. PICK u \in Pace!JitterRange(p) : s = <<u + left, Pace!JitterLeft(p, u)>>
    BY <1>3 DEF Pace!Simple
  <2>2. u \in Int
    BY <1>3 DEF Pace!JitterRange, IsSimple
  <2> QED
    BY <2>1, <2>2 DEF Pace!JitterLeft, IsSimple
<1> QED
  BY <1>1, <1>2, <1>3 DEF IsSimple

\* A JITTER pattern is never later or earlier than its turn by more than it may.
LEMMA JitterTurn ==
  ASSUME Proper, NEW p, IsSimple(p), p.type = "JITTER", p.interval > 0,
         Numbers, OnTurn(p), NEW s \in Pace!Simple(p, remainder),
         Pace!Give(s[1]), remainder' = s[2], UNCHANGED <<events, current>>
  PROVE  OnTurn(p)'
<1>1. PICK u \in Pace!JitterRange(p) : s = <<u + remainder, Pace!JitterLeft(p, u)>>
  BY DEF Pace!Simple
<1>2. p.interval \in Int /\ p.jitter \in Nat /\ 2 * p.jitter <= p.interval
  BY DEF IsSimple
<1>3. u \in (p.interval - p.jitter)..(p.interval + p.jitter)
  BY DEF Pace!JitterRange
<1> DEFINE turns == calls * p.interval
<1>4. turns \in Int /\ (calls + 1) * p.interval = turns + p.interval
  BY <1>2 DEF Numbers
<1>5. clock = turns - remainder /\ remainder \in (0 - p.jitter)..p.jitter
  BY DEF OnTurn
<1> HIDE DEF turns
<1>6. /\ clock' = clock + u + remainder
      /\ calls' = calls + 1
      /\ remainder' = p.interval - u
  BY <1>1, <1>2, <1>3, <1>5 DEF Pace!Give, Pace!JitterLeft, Numbers
<1>7. clock' = turns + p.interval - remainder' /\ remainder' \in (0 - p.jitter)..p.jitter
  BY <1>2, <1>3, <1>4, <1>5, <1>6 DEF Numbers
<1>8. clock' = calls' * p.interval - remainder'
  <2>1. clock' = (calls + 1) * p.interval - remainder'
    BY <1>2, <1>4, <1>7
  <2> QED
    BY <1>6, <2>1
<1> QED
  BY <1>7, <1>8 DEF OnTurn

LEMMA GiveNumbers ==
  ASSUME Numbers, NEW interval \in Int, Pace!Give(interval)
  PROVE  clock' \in Nat /\ calls' \in Nat /\ clock' >= clock
BY DEF Numbers, Pace!Give

LEMMA SimpleKept ==
  ASSUME Proper, Kept, current # 0, IsSimple(Pace!Now), Pace!GetSimple(Pace!Now),
         UNCHANGED <<events, current>>
  PROVE  Kept'
<1>1. PICK s \in Pace!Simple(Pace!Now, remainder) : Pace!Give(s[1]) /\ remainder' = s[2]
  BY DEF Pace!GetSimple
<1>2. s[1] \in Int /\ s[2] \in Int
  BY <1>1, SimpleInt DEF Kept, Numbers
<1>3. Numbers'
  BY <1>1, <1>2, GiveNumbers DEF Kept, Numbers, Pace!GetSimple
<1>4. OnTurn(Pace!Now)
  BY DEF Kept
<1>5. ASSUME Pace!Now.type = "JITTER", Pace!Now.interval > 0 PROVE OnTurn(Pace!Now)'
  <2>1. Numbers
    BY DEF Kept
  <2> QED
    BY <1>1, <1>4, <1>5, <2>1, JitterTurn DEF Pace!Now, OnTurn
<1>6. OnTurn(Pace!Now)'
  BY <1>5 DEF OnTurn, Pace!Now
<1> QED
  BY <1>3, <1>6 DEF Kept, Pace!GetSimple, InBurst, Begun, Pace!Now

-------------------------------------------------------------------------------
(* An interval of a BURST.                                                 *)

LEMMA NothingBetween ==
  ASSUME NEW n \in Nat
  PROVE  n - n = 0
OBVIOUS

\* The next burst begins an interval after the one that ends, or with the message
\* after its last one.
LEMMA EndKept ==
  ASSUME Proper, Kept, current # 0, IsBurst(Pace!Now), NEW inner \in Int,
         Pace!EndBurst(Pace!Now, inner),
         Pace!Now.inner.type = "PERIODIC" => inner = Pace!Now.inner.interval,
         innerLeft' \in Int, UNCHANGED <<events, current>>
  PROVE  Kept'
<1>1. PICK b \in Pace!BurstIntervals(Pace!Now), d \in Pace!Drawn(Pace!Now) :
        /\ Pace!Give(Pace!Later(inner, Pace!NextBurst(b)))
        /\ duration' = d
        /\ remainder' = d
        /\ burstStarted' = clock'
        /\ previous' = [start |-> burstStarted, interval |-> b, duration |-> duration,
                        last |-> clock]
  BY DEF Pace!EndBurst
<1>2. b \in Int /\ d \in Nat
  <2>1. b \in Int
    BY ControlAssumption DEF Pace!BurstIntervals, Pace!Exponential, IsBurst, Proper
  <2> QED
    BY <2>1, DrawnNat
<1>3. Numbers /\ InBurst(Pace!Now) /\ Pace!Now.type = "BURST"
  BY DEF Kept, IsBurst
<1>4. Pace!NextBurst(b) \in Int /\ Pace!Later(inner, Pace!NextBurst(b)) \in Int
  BY <1>2, <1>3 DEF Pace!NextBurst, Pace!Later, Numbers
<1>5. Numbers'
  BY <1>1, <1>2, <1>3, <1>4, GiveNumbers DEF Numbers
<1>6. InBurst(Pace!Now)'
  <2>1. clock' \in Nat /\ burstStarted' = clock' /\ duration' = d /\ remainder' = d
    BY <1>1, <1>5 DEF Numbers
  <2>2. clock' - burstStarted' = 0
    <3>1. clock' - clock' = 0
      BY <2>1, NothingBetween, Zenon
    <3> QED
      BY <2>1, <3>1
  <2>3. clock' - burstStarted' + remainder' = duration'
    <3>1. 0 + remainder' = duration'
      BY <1>2, <2>1
    <3> QED
      BY <2>2, <3>1
  <2>4. remainder' >= 0 /\ ~(clock' > burstStarted')
    BY <1>2, <2>1
  <2> QED
    BY <2>3, <2>4 DEF InBurst
<1>7. ASSUME b > duration, Pace!Now.inner.type = "PERIODIC"
      PROVE  IF inner > 0 THEN clock' = Pace!Later(burstStarted + b, clock + inner)
             ELSE clock' >= burstStarted + b
  <2>1. Pace!NextBurst(b) = b - duration + remainder /\ remainder >= 0
    BY <1>3, <1>7 DEF Pace!NextBurst, InBurst
  <2>2. clock + Pace!NextBurst(b) = burstStarted + b
    BY <1>2, <1>3, <2>1 DEF InBurst, Numbers
  <2>3. Pace!NextBurst(b) > 0
    BY <1>2, <1>3, <1>7, <2>1 DEF Numbers
  <2>4. clock' = clock + Pace!Later(inner, Pace!NextBurst(b))
    BY <1>1, <1>4, <2>3 DEF Pace!Give, Pace!Later
  <2> QED
    BY <1>2, <1>3, <1>4, <2>2, <2>3, <2>4 DEF Pace!Later, Numbers
<1>8. Begun(Pace!Now)'
  BY <1>1, <1>7 DEF Begun, Pace!Now
<1> QED
  BY <1>3, <1>5, <1>6, <1>8 DEF Kept, OnTurn, Pace!Now

LEMMA BurstKept ==
  ASSUME Proper, Kept, current # 0, IsBurst(Pace!Now), Pace!GetBurst(Pace!Now),
         UNCHANGED <<events, current>>
  PROVE  Kept'
<1>1. PICK s \in Pace!Simple(Pace!Now.inner, innerLeft) :
        innerLeft' = s[2] /\ (Pace!PacedBurst(Pace!Now, s[1]) \/ Pace!UnpacedBurst(Pace!Now, s[1]))
  BY DEF Pace!GetBurst
<1> DEFINE inner == s[1]
<1>2. inner \in Int /\ innerLeft' \in Int
  BY <1>1, SimpleInt DEF Kept, Numbers, IsBurst
<1>3. Pace!Now.inner.type = "PERIODIC" => inner = Pace!Now.inner.interval
  BY <1>1 DEF Pace!Simple
<1>4. Numbers /\ InBurst(Pace!Now) /\ Begun(Pace!Now) /\ Pace!Now.type = "BURST"
  BY DEF Kept, IsBurst
<1> HIDE DEF inner
<1>5. CASE Pace!EndBurst(Pace!Now, inner)
  BY <1>2, <1>3, <1>5, EndKept
<1>6. CASE /\ inner > 0 /\ remainder > inner /\ Pace!Give(inner) /\ remainder' = remainder - inner
           /\ UNCHANGED <<duration, burstStarted, previous>>
  <2>1. Numbers'
    BY <1>2, <1>4, <1>6, GiveNumbers DEF Numbers
  <2>2. InBurst(Pace!Now)'
    BY <1>2, <1>4, <1>6 DEF InBurst, Pace!Now, Pace!Give, Numbers
  <2> QED
    BY <1>4, <1>6, <2>1, <2>2 DEF Kept, OnTurn, Begun, Pace!Now
<1>7. ASSUME NEW delta \in Nat, remainder > delta,
             remainder' = remainder - delta, clock' = clock + delta, calls' = calls + 1,
             UNCHANGED <<duration, burstStarted, previous>>
      PROVE  Kept'
  <2>1. Numbers'
    BY <1>2, <1>4, <1>7 DEF Numbers
  <2>2. InBurst(Pace!Now)'
    BY <1>4, <1>7 DEF InBurst, Pace!Now, Numbers
  <2> QED
    BY <1>4, <1>7, <2>1, <2>2 DEF Kept, OnTurn, Begun, Pace!Now
<1>8. CASE Pace!PacedBurst(Pace!Now, inner)
  BY <1>5, <1>6, <1>8 DEF Pace!PacedBurst
<1>9. CASE Pace!UnpacedBurst(Pace!Now, inner)
  <2>1. PICK delay \in Delays :
          LET delta == IF lastTime = -1 THEN 0 ELSE delay
          IN IF remainder > delta
             THEN /\ lastTime' = 0
                  /\ remainder' = remainder - delta
                  /\ clock' = clock + delta /\ calls' = calls + 1 /\ lastInterval' = inner
                  /\ UNCHANGED <<duration, burstStarted, previous>>
             ELSE lastTime' = -1 /\ Pace!EndBurst(Pace!Now, inner)
    BY <1>9 DEF Pace!UnpacedBurst
  <2> DEFINE delta == IF lastTime = -1 THEN 0 ELSE delay
  <2>2. delta \in Nat
    BY ControlAssumption DEF Proper
  <2>3. CASE remainder > delta
    BY <1>7, <2>1, <2>2, <2>3
  <2>4. CASE ~(remainder > delta)
    BY <1>5, <2>1, <2>4
  <2> QED
    BY <2>3, <2>4
<1> QED
  BY <1>1, <1>8, <1>9 DEF inner

-------------------------------------------------------------------------------
LEMMA KeptNext ==
  ASSUME Proper, Kept, [Pace!Next]_(Pace!vars)
  PROVE  Kept'
<1>1. CASE Pace!On
  BY <1>1, CopyKept DEF Pace!On
<1>2. CASE Pace!Mod
  BY <1>2, CopyKept DEF Pace!Mod
<1>3. CASE Pace!GetPktInterval
  <2>1. current # 0 /\ UNCHANGED <<events, current>>
    BY <1>3 DEF Pace!GetPktInterval
  <2>2. IsSimple(Pace!Now) \/ IsBurst(Pace!Now)
    <3>1. Pace!Now \in Pattern \cup Changed
      BY <2>1 DEF Kept, Numbers, Pace!Now
    <3> QED
      BY ControlAssumption, <3>1 DEF Proper
  <2>3. CASE Pace!GetSimple(Pace!Now)
    BY <2>1, <2>2, <2>3, SimpleKept DEF Pace!GetSimple, IsBurst
  <2>4. CASE Pace!GetBurst(Pace!Now)
    BY <2>1, <2>2, <2>4, BurstKept DEF Pace!GetBurst, IsSimple
  <2>5. CASE UNCHANGED <<remainder, duration, lastTime, innerLeft, clock, calls, lastInterval,
                         burstStarted, previous>>
    BY <2>1, <2>5 DEF Kept, Numbers, OnTurn, InBurst, Begun, Pace!Now
  <2> QED
    BY <1>3, <2>3, <2>4, <2>5 DEF Pace!GetPktInterval, Pace!Now
<1>4. CASE UNCHANGED Pace!vars
  BY <1>4 DEF Pace!vars, Kept, Numbers, OnTurn, InBurst, Begun, Pace!Now
<1> QED
  BY <1>1, <1>2, <1>3, <1>4 DEF Pace!Next

\* MgenPattern::GetPktInterval: bursts begin an interval apart and end with their
\* duration, and jitter does not add up, over any number of messages.
THEOREM AtPace ==
  ASSUME Proper
  PROVE  MCSpec => []Paced
<1>1. MCInit => Kept
  BY KeptInit DEF MCInit
<1>2. Kept /\ [MCNext]_<<part, vars, pace, others>> => Kept'
  <2>1. ASSUME [MCNext]_<<part, vars, pace, others>> PROVE [Pace!Next]_(Pace!vars)
    BY <2>1 DEF MCNext, Intervals, Scheduling, pace, Pace!vars
  <2> QED
    BY <2>1, KeptNext
<1>3. Kept => Paced
  BY KeptPaced DEF Paced
<1> QED
  BY <1>1, <1>2, <1>3, PTL DEF MCSpec

(***************************************************************************)
(* Commands.                                                               *)
(***************************************************************************)

\* A command with the argument it needs.
Complete(c) == c \in Given!AllCommands /\ ~Given!Missing(c)

Named == Given!Checked \cup Given!Guarded

Values == {"default", "undefined", "on"} \cup {c.arg : c \in Given!AllCommands}

Heard == [command : Given!AllCommands, override : BOOLEAN]

MgenState ==
  [value : [Given!Settings -> Values], lock : [Named \cup {"LOG"} -> BOOLEAN],
   logFile : {"stdout", "none"} \cup Given!LogFiles, binary : BOOLEAN, open : BOOLEAN,
   contents : [Given!LogFiles -> SUBSET {"text", "binary"}],
   flows : Seq(Nat), queue : Seq(Values), suspended : SUBSET Nat, ok : BOOLEAN,
   given : Seq(Heard)]

LEMMA CompleteFacts ==
  ASSUME NEW c, Complete(c)
  PROVE  /\ c \in Given!AllCommands
         /\ c.arg \in Values /\ c.list \in Seq(Nat \X Nat)
         /\ c.name = "EVENT" => c.list # << >>
         /\ c.name \in {"OUTPUT", "LOG"} => c.arg \in Given!LogFiles \cup {"bad"}
         /\ (c.name = "INPUT" /\ c.arg # "bad") => c.arg \in DOMAIN Scripts
<1>1. c \in Given!AllCommands
  BY DEF Complete
<1>2. ASSUME c.name \in {"OUTPUT", "LOG", "INPUT"} PROVE c.arg # "none"
  BY <1>2 DEF Complete, Given!Missing, Given!NoArgument, Given!Flags
<1>3. c.name \in {"OUTPUT", "LOG"} => c.arg \in Given!LogFiles \cup {"bad"}
  BY <1>1, <1>2 DEF Given!LogFiles
<1> QED
  BY <1>1, <1>2, <1>3, MenuAssumption DEF Complete, Values

\* What a command does to settings: one that does not set them leaves them.
Settles(s, t, c, override) ==
  \A n \in Named :
    /\ n # c.name => t.value[n] = s.value[n] /\ t.lock[n] = s.lock[n]
    /\ n = c.name /\ n # "RXBUFFER" =>
         IF c.arg = "bad" \/ (s.lock[n] /\ ~override)
         THEN t.value[n] = s.value[n] /\ t.lock[n] = s.lock[n]
         ELSE t.value[n] = c.arg /\ t.lock[n] = (s.lock[n] \/ override)

KeepsLog(s, t) ==
  t.logFile = s.logFile /\ t.binary = s.binary /\ t.open = s.open /\ t.contents = s.contents

KeepsFlows(s, t) == t.flows = s.flows /\ t.suspended = s.suspended

KeepsGiven(s, t) == t \in MgenState /\ t.given = s.given

\* Only n is set, to v, if that is allowed.
SetsOne(s, t, n, v, override) ==
  /\ \A m \in Named : m # n => t.value[m] = s.value[m] /\ t.lock[m] = s.lock[m]
  /\ IF s.lock[n] /\ ~override
     THEN t.value[n] = s.value[n] /\ t.lock[n] = s.lock[n]
     ELSE t.value[n] = v /\ t.lock[n] = (s.lock[n] \/ override)

LEMMA SetDoes ==
  ASSUME NEW s \in MgenState, NEW n \in Named, NEW v \in Values, NEW override \in BOOLEAN
  PROVE  LET t == Given!Set(s, n, v, override)
         IN /\ KeepsGiven(s, t) /\ KeepsLog(s, t) /\ KeepsFlows(s, t)
            /\ SetsOne(s, t, n, v, override)
<1>1. CASE s.lock[n] /\ ~override
  <2>1. Given!Set(s, n, v, override) = s
    BY <1>1 DEF Given!Set, Given!Shielded
  <2> QED
    BY <1>1, <2>1 DEF KeepsGiven, KeepsLog, KeepsFlows, SetsOne
<1>2. CASE ~(s.lock[n] /\ ~override)
  <2> DEFINE t == [s EXCEPT !.value[n] = v, !.lock[n] = s.lock[n] \/ override]
  <2>1. Given!Set(s, n, v, override) = t
    BY <1>2 DEF Given!Set, Given!Shielded
  <2>2. n \in Given!Settings
    BY DEF Named, Given!Settings
  <2>3. t.value = [s.value EXCEPT ![n] = v] /\ t.lock = [s.lock EXCEPT ![n] = s.lock[n] \/ override]
    BY DEF MgenState
  <2>4. t \in MgenState
    <3>1. t.value \in [Given!Settings -> Values]
      BY <2>2, <2>3 DEF MgenState
    <3>2. t.lock \in [Named \cup {"LOG"} -> BOOLEAN]
      BY <2>3 DEF MgenState
    <3> QED
      BY <3>1, <3>2 DEF MgenState
  <2>5. t.value[n] = v /\ t.lock[n] = (s.lock[n] \/ override)
    BY <2>2, <2>3 DEF MgenState
  <2>6. \A m \in Named : m # n => t.value[m] = s.value[m] /\ t.lock[m] = s.lock[m]
    BY <2>3 DEF MgenState, Named, Given!Settings
  <2>7. KeepsLog(s, t) /\ KeepsFlows(s, t) /\ t.given = s.given
    BY DEF KeepsLog, KeepsFlows, MgenState
  <2> HIDE DEF t
  <2> QED
    BY <1>2, <2>1, <2>4, <2>5, <2>6, <2>7 DEF KeepsGiven, SetsOne
<1> QED
  BY <1>1, <1>2

LEMMA RefusedDoes ==
  ASSUME NEW s \in MgenState
  PROVE  /\ KeepsGiven(s, Given!Refused(s)) /\ KeepsLog(s, Given!Refused(s))
         /\ KeepsFlows(s, Given!Refused(s))
         /\ Given!Refused(s).value = s.value /\ Given!Refused(s).lock = s.lock
         /\ Given!Refused(s).ok = FALSE
BY DEF Given!Refused, KeepsGiven, KeepsLog, KeepsFlows, MgenState

\* What is left alone by commands that do not change it.
LEMMA SettledAlone ==
  ASSUME NEW s, NEW t, NEW c, NEW override, t.value = s.value, t.lock = s.lock,
         c.name \in Named => c.arg = "bad"
  PROVE  Settles(s, t, c, override)
BY DEF Settles

LEMMA SetCheckedDoes ==
  ASSUME NEW s \in MgenState, NEW c, Complete(c), c.name \in Given!Checked,
         NEW override \in BOOLEAN
  PROVE  LET t == Given!SetChecked(s, c, override)
         IN /\ KeepsGiven(s, t) /\ KeepsLog(s, t) /\ KeepsFlows(s, t)
            /\ Settles(s, t, c, override)
<1>1. c.name \in Named /\ c.arg \in Values
  BY CompleteFacts DEF Named
<1>2. CASE c.arg # "bad"
  <2> DEFINE t == Given!Set(s, c.name, c.arg, override)
  <2>1. Given!SetChecked(s, c, override) = t
    BY <1>2 DEF Given!SetChecked
  <2>2. KeepsGiven(s, t) /\ KeepsLog(s, t) /\ KeepsFlows(s, t)
        /\ SetsOne(s, t, c.name, c.arg, override)
    BY <1>1, SetDoes
  <2> HIDE DEF t
  <2>3. Settles(s, t, c, override)
    BY <1>2, <2>2 DEF Settles, SetsOne
  <2> QED
    BY <2>1, <2>2, <2>3
<1>3. CASE c.arg = "bad" /\ c.name = "RXBUFFER"
  <2> DEFINE t == Given!Set(s, c.name, "undefined", override)
  <2>1. Given!SetChecked(s, c, override) = t
    BY <1>3 DEF Given!SetChecked
  <2>2. "undefined" \in Values
    BY DEF Values
  <2>3. KeepsGiven(s, t) /\ KeepsLog(s, t) /\ KeepsFlows(s, t)
        /\ SetsOne(s, t, c.name, "undefined", override)
    BY <1>1, <2>2, SetDoes
  <2> HIDE DEF t
  <2>4. Settles(s, t, c, override)
    BY <1>3, <2>3 DEF Settles, SetsOne
  <2> QED
    BY <2>1, <2>3, <2>4
<1>4. CASE c.arg = "bad" /\ c.name # "RXBUFFER"
  <2>1. Given!SetChecked(s, c, override) = Given!Refused(s)
    BY <1>4 DEF Given!SetChecked
  <2> QED
    BY <1>4, <2>1, RefusedDoes, SettledAlone
<1> QED
  BY <1>2, <1>3, <1>4

LEMMA SetGuardedDoes ==
  ASSUME NEW s \in MgenState, NEW c, Complete(c), c.name \in Given!Guarded,
         NEW override \in BOOLEAN
  PROVE  LET t == Given!SetGuarded(s, c, override)
         IN /\ KeepsGiven(s, t) /\ KeepsLog(s, t) /\ KeepsFlows(s, t)
            /\ Settles(s, t, c, override)
<1>1. c.name \in Named /\ c.arg \in Values
  BY CompleteFacts DEF Named
<1>2. CASE c.arg = "bad" /\ ~(s.lock[c.name] /\ ~override)
  <2>1. Given!SetGuarded(s, c, override) = Given!Refused(s)
    BY <1>2 DEF Given!SetGuarded, Given!Shielded
  <2> QED
    BY <1>2, <2>1, RefusedDoes, SettledAlone
<1>3. CASE ~(c.arg = "bad" /\ ~(s.lock[c.name] /\ ~override))
  <2> DEFINE t == Given!Set(s, c.name, c.arg, override)
  <2>1. Given!SetGuarded(s, c, override) = t
    BY <1>3 DEF Given!SetGuarded, Given!Shielded
  <2>2. KeepsGiven(s, t) /\ KeepsLog(s, t) /\ KeepsFlows(s, t)
        /\ SetsOne(s, t, c.name, c.arg, override)
    BY <1>1, SetDoes
  <2> HIDE DEF t
  <2>3. Settles(s, t, c, override)
    BY <1>3, <2>2 DEF Settles, SetsOne
  <2> QED
    BY <2>1, <2>2, <2>3
<1> QED
  BY <1>2, <1>3

LEMMA SetFlagDoes ==
  ASSUME NEW s \in MgenState, NEW c, c.name \in Given!Flags, NEW override
  PROVE  LET t == Given!SetFlag(s, c)
         IN /\ KeepsGiven(s, t) /\ KeepsLog(s, t) /\ KeepsFlows(s, t)
            /\ Settles(s, t, c, override)
<1> DEFINE names == CASE c.name = "REPORT" -> {"REPORT", "ANALYTICS"}
                      [] c.name = "CHECKSUM" -> {"TXCHECKSUM", "RXCHECKSUM"}
                      [] OTHER -> {c.name}
           v == [n \in DOMAIN s.value |-> IF n \in names THEN "on" ELSE s.value[n]]
           t == [s EXCEPT !.value = v]
<1>1. Given!SetFlag(s, c) = t
  BY DEF Given!SetFlag
<1>2. names \subseteq Given!Flags
  BY DEF Given!Flags
<1>3. Named \cap Given!Flags = {} /\ c.name \notin Named /\ Named \subseteq Given!Settings
  BY DEF Named, Given!Checked, Given!Guarded, Given!Flags, Given!Settings
<1> HIDE DEF names
<1>4. v \in [Given!Settings -> Values] /\ \A n \in Named : v[n] = s.value[n]
  <2>1. s.value \in [Given!Settings -> Values]
    BY DEF MgenState
  <2>2. DOMAIN s.value = Given!Settings
    BY <2>1
  <2>3. \A n \in Named : n \notin names /\ n \in Given!Settings
    BY <1>2, <1>3
  <2>4. "on" \in Values
    BY DEF Values
  <2> QED
    BY <2>1, <2>2, <2>3, <2>4
<1> HIDE DEF v
<1>5. t.value = v /\ t.lock = s.lock /\ t \in MgenState /\ t.given = s.given
  BY <1>4 DEF MgenState
<1>6. KeepsLog(s, t) /\ KeepsFlows(s, t)
  BY DEF KeepsLog, KeepsFlows, MgenState
<1>7. Settles(s, t, c, override)
  BY <1>3, <1>4, <1>5 DEF Settles
<1> HIDE DEF t
<1> QED
  BY <1>1, <1>5, <1>6, <1>7 DEF KeepsGiven

LEMMA SetSwitchDoes ==
  ASSUME NEW s \in MgenState, NEW c, Complete(c), c.name \in Given!Switches, NEW override
  PROVE  LET t == Given!SetSwitch(s, c)
         IN /\ KeepsGiven(s, t) /\ KeepsLog(s, t) /\ KeepsFlows(s, t)
            /\ Settles(s, t, c, override)
<1>1. c.name \notin Named /\ Named \subseteq Given!Settings /\ c.name \in Given!Settings
  BY DEF Named, Given!Checked, Given!Guarded, Given!Switches, Given!Settings
<1> DEFINE refuses == c.arg = "bad" /\ c.name # "DEBUG"
<1>2. CASE refuses
  <2>1. Given!SetSwitch(s, c) = Given!Refused(s)
    BY <1>2 DEF Given!SetSwitch
  <2> QED
    BY <1>2, <2>1, RefusedDoes, SettledAlone
<1>3. CASE ~refuses
  <2> DEFINE t == [s EXCEPT !.value[c.name] = c.arg]
  <2>1. Given!SetSwitch(s, c) = t
    BY <1>3 DEF Given!SetSwitch
  <2>2. c.arg \in Values
    BY CompleteFacts
  <2>3. t.value = [s.value EXCEPT ![c.name] = c.arg] /\ t.lock = s.lock
    BY DEF MgenState
  <2>4. t.value \in [Given!Settings -> Values] /\ \A n \in Named : t.value[n] = s.value[n]
    BY <1>1, <2>2, <2>3 DEF MgenState
  <2>5. t \in MgenState /\ t.given = s.given
    BY <2>4 DEF MgenState
  <2>6. KeepsLog(s, t) /\ KeepsFlows(s, t)
    BY DEF KeepsLog, KeepsFlows, MgenState
  <2>7. Settles(s, t, c, override)
    BY <1>1, <2>3, <2>4 DEF Settles
  <2> HIDE DEF t
  <2> QED
    BY <2>1, <2>5, <2>6, <2>7 DEF KeepsGiven
<1> QED
  BY <1>2, <1>3

\* While no log was opened nothing was logged; a file has what the format is.
LogOk(s) ==
  /\ ~s.open => s.logFile \in {"stdout", "none"} /\ \A f \in Given!LogFiles : s.contents[f] = {}
  /\ \A f \in Given!LogFiles : s.contents[f] \subseteq {IF s.binary THEN "binary" ELSE "text"}

LEMMA LogAlone ==
  ASSUME NEW s, NEW t, KeepsLog(s, t), LogOk(s)
  PROVE  LogOk(t)
BY DEF KeepsLog, LogOk

LEMMA SetLogDoes ==
  ASSUME NEW s \in MgenState, NEW c, Complete(c), c.name \in Given!LogCommands,
         NEW override \in BOOLEAN
  PROVE  LET t == Given!SetLog(s, c, override)
         IN /\ KeepsGiven(s, t) /\ KeepsFlows(s, t) /\ Settles(s, t, c, override)
            /\ LogOk(s) => LogOk(t)
<1>1. c.name \notin Named /\ "LOG" \notin Named
  BY DEF Named, Given!Checked, Given!Guarded, Given!LogCommands
<1>2. CASE Given!Shielded(s, "LOG", override)
  <2>1. Given!SetLog(s, c, override) = s
    BY <1>2 DEF Given!SetLog
  <2> QED
    BY <1>1, <2>1, SettledAlone DEF KeepsGiven, KeepsFlows
<1>3. CASE ~Given!Shielded(s, "LOG", override) /\ c.arg = "bad"
  <2>1. Given!SetLog(s, c, override) = Given!Refused(s)
    BY <1>3 DEF Given!SetLog
  <2> QED
    BY <1>1, <2>1, SettledAlone, RefusedDoes, LogAlone
<1>4. CASE ~Given!Shielded(s, "LOG", override) /\ c.arg # "bad"
  <2> DEFINE file == IF c.name = "NOLOG" THEN "none" ELSE c.arg
             kept == IF c.name = "OUTPUT" THEN [s.contents EXCEPT ![c.arg] = {}] ELSE s.contents
             opened == s.open \/ c.name # "NOLOG"
             t == [s EXCEPT !.lock["LOG"] = override, !.logFile = file, !.open = opened,
                            !.contents = kept]
  <2>1. Given!SetLog(s, c, override) = t
    BY <1>4 DEF Given!SetLog
  <2>2. c.name \in {"OUTPUT", "LOG", "NOLOG"}
    BY DEF Given!LogCommands
  <2>3. file \in {"none"} \cup Given!LogFiles
    BY <1>4, <2>2, CompleteFacts
  <2>4. /\ kept \in [Given!LogFiles -> SUBSET {"text", "binary"}]
        /\ \A f \in Given!LogFiles : kept[f] \subseteq s.contents[f]
    <3>1. s.contents \in [Given!LogFiles -> SUBSET {"text", "binary"}]
      BY DEF MgenState
    <3> QED
      BY <3>1
  <2>5. opened \in BOOLEAN
    BY DEF MgenState
  <2>6. c.name = "NOLOG" => file = "none" /\ kept = s.contents /\ opened = s.open
    BY DEF MgenState
  <2>7. c.name # "NOLOG" => opened = TRUE
    OBVIOUS
  <2> HIDE DEF file, kept, opened
  <2>8. /\ t.value = s.value /\ t.lock = [s.lock EXCEPT !["LOG"] = override] /\ t.logFile = file
        /\ t.binary = s.binary /\ t.open = opened /\ t.contents = kept
        /\ t.flows = s.flows /\ t.queue = s.queue /\ t.suspended = s.suspended
        /\ t.ok = s.ok /\ t.given = s.given
    BY DEF MgenState
  <2>9. t.lock \in [Named \cup {"LOG"} -> BOOLEAN] /\ \A n \in Named : t.lock[n] = s.lock[n]
    BY <1>1, <2>8 DEF MgenState
  <2>10. t \in MgenState
    BY <2>3, <2>4, <2>5, <2>8, <2>9 DEF MgenState
  <2> HIDE DEF t
  <2>11. KeepsGiven(s, t) /\ KeepsFlows(s, t)
    BY <2>8, <2>10 DEF KeepsGiven, KeepsFlows
  <2>12. Settles(s, t, c, override)
    BY <1>1, <2>8, <2>9 DEF Settles
  <2>13. LogOk(s) => LogOk(t)
    BY <2>4, <2>6, <2>7, <2>8 DEF LogOk
  <2> QED
    BY <2>1, <2>11, <2>12, <2>13
<1> QED
  BY <1>2, <1>3, <1>4

LEMMA SetBinaryDoes ==
  ASSUME NEW s \in MgenState, NEW c, c.name = "BINARY", NEW override
  PROVE  LET t == Given!SetBinary(s)
         IN /\ KeepsGiven(s, t) /\ KeepsFlows(s, t) /\ Settles(s, t, c, override)
            /\ LogOk(s) => LogOk(t)
<1>1. c.name \notin Named
  BY DEF Named, Given!Checked, Given!Guarded
<1>2. CASE s.open
  <2>1. Given!SetBinary(s) = Given!Refused(s)
    BY <1>2 DEF Given!SetBinary
  <2> QED
    BY <1>1, <2>1, SettledAlone, RefusedDoes, LogAlone
<1>3. CASE ~s.open
  <2> DEFINE t == [s EXCEPT !.binary = TRUE]
  <2>1. Given!SetBinary(s) = t
    BY <1>3 DEF Given!SetBinary
  <2>2. KeepsGiven(s, t) /\ KeepsFlows(s, t)
    BY DEF KeepsGiven, KeepsFlows, MgenState
  <2>3. t.value = s.value /\ t.lock = s.lock /\ t.open = s.open /\ t.logFile = s.logFile
        /\ t.contents = s.contents
    BY DEF MgenState
  <2> HIDE DEF t
  <2>4. LogOk(s) => LogOk(t)
    BY <1>3, <2>3 DEF LogOk
  <2> QED
    BY <1>1, <2>1, <2>2, <2>3, <2>4, SettledAlone
<1> QED
  BY <1>2, <1>3

-------------------------------------------------------------------------------
(* Flows.                                                                  *)

\* f becomes a flow, if it was none.
Becoming(old, new, f) ==
  new = IF \E i \in 1..Len(old) : old[i] = f THEN old ELSE Append(old, f)

LEMMA EventDoes ==
  ASSUME NEW s \in MgenState, NEW c, Complete(c), c.name = "EVENT", NEW override
  PROVE  LET t == Given!Event(s, c)
         IN /\ KeepsGiven(s, t) /\ KeepsLog(s, t) /\ Settles(s, t, c, override)
            /\ t.suspended = s.suspended
            /\ c.list[1][1] \in Nat /\ Becoming(s.flows, t.flows, c.list[1][1])
<1> DEFINE f == c.list[1][1]
           good == c.arg # "bad"
           t == Given!Event(s, c)
<1>1. f \in Nat
  <2>1. c.list \in Seq(Nat \X Nat) /\ c.list # << >>
    BY CompleteFacts
  <2>2. 1 \in 1..Len(c.list)
    BY <2>1, EmptySeq, LenProperties
  <2>3. c.list[1] \in Nat \X Nat
    BY <2>1, <2>2, ElementOfSeq
  <2> QED
    BY <2>3
<1>2. s.flows \in Seq(Nat) /\ s.queue \in Seq(Values) /\ s.value["QUEUE"] \in Values
  BY DEF MgenState, Given!Settings, Given!Checked
<1>3. c.name \notin Named
  BY DEF Named, Given!Checked, Given!Guarded
<1>4. f \in Given!Range(s.flows) <=> \E i \in 1..Len(s.flows) : s.flows[i] = f
  <2>1. DOMAIN s.flows = 1..Len(s.flows)
    BY <1>2, LenProperties
  <2> QED
    BY <2>1 DEF Given!Range
<1>5. CASE f \in Given!Range(s.flows)
  <2>1. t = [s EXCEPT !.ok = good]
    BY <1>5 DEF Given!Event
  <2>2. /\ t.value = s.value /\ t.lock = s.lock /\ t.flows = s.flows
        /\ KeepsGiven(s, t) /\ KeepsLog(s, t) /\ t.suspended = s.suspended
    BY <2>1 DEF KeepsGiven, KeepsLog, MgenState
  <2> HIDE DEF t
  <2>3. Settles(s, t, c, override)
    BY <1>3, <2>2, SettledAlone
  <2>4. Becoming(s.flows, t.flows, f)
    BY <1>4, <1>5, <2>2 DEF Becoming
  <2> QED
    BY <1>1, <2>2, <2>3, <2>4 DEF t
<1>6. CASE f \notin Given!Range(s.flows)
  <2> DEFINE fs == Append(s.flows, f)
             qs == Append(s.queue, s.value["QUEUE"])
  <2>1. t = [[s EXCEPT !.flows = fs, !.queue = qs] EXCEPT !.ok = good]
    BY <1>6 DEF Given!Event
  <2>2. fs \in Seq(Nat) /\ qs \in Seq(Values)
    BY <1>1, <1>2, AppendProperties
  <2> HIDE DEF fs, qs
  <2>3. /\ t.value = s.value /\ t.lock = s.lock /\ t.flows = fs
        /\ KeepsGiven(s, t) /\ KeepsLog(s, t) /\ t.suspended = s.suspended
    BY <2>1, <2>2 DEF KeepsGiven, KeepsLog, MgenState
  <2> HIDE DEF t
  <2>4. Settles(s, t, c, override)
    BY <1>3, <2>3, SettledAlone
  <2>5. Becoming(s.flows, t.flows, f)
    BY <1>4, <1>6, <2>3 DEF Becoming, fs
  <2> QED
    BY <1>1, <2>3, <2>4, <2>5 DEF t
<1> QED
  BY <1>5, <1>6

\* Of a set of numbers that is not empty one is the least.
LEMMA LeastOf ==
  ASSUME NEW T, T \subseteq Nat, T # {}
  PROVE  \E x \in T : \A y \in T : x <= y
<1> DEFINE Less == OpToRel(<, Nat)
<1>1. IsWellFoundedOn(Less, Nat)
  BY NatLessThanWellFounded
<1>2. \A x, y \in Nat : y < x => <<y, x>> \in Less
  BY DEF OpToRel
<1> HIDE DEF Less
<1>3. PICK x \in T : \A y \in T : ~(<<y, x>> \in Less)
  BY <1>1, WFMin
<1>4. \A y \in T : x \in Nat /\ y \in Nat /\ ~(y < x)
  BY <1>2, <1>3
<1>5. \A y \in T : x <= y
  BY <1>4
<1> QED
  BY <1>5

\* g has what F makes of x in m steps.
Made(D, F, x, m, g) ==
  /\ g \in [0..m -> D]
  /\ g[0] = x
  /\ \A n \in 1..m : g[n] = F[<<g[n - 1], n>>]

LEMMA MadeExists ==
  ASSUME NEW D, NEW N \in Nat, NEW F \in [D \X (1..N) -> D], NEW x \in D
  PROVE  \E g : Made(D, F, x, N, g)
<1> DEFINE T == {m \in 0..N : ~\E g : Made(D, F, x, m, g)}
<1>1. SUFFICES ASSUME T # {} PROVE FALSE
  OBVIOUS
<1>2. PICK m \in T : \A y \in T : m <= y
  <2>1. T \subseteq Nat
    OBVIOUS
  <2> HIDE DEF T
  <2> QED
    BY <1>1, <2>1, LeastOf
<1>3. m \in 0..N /\ ~\E g : Made(D, F, x, m, g)
  BY <1>2
<1>4. m # 0
  <2>1. Made(D, F, x, 0, [n \in 0..0 |-> x])
    <3>1. 0 \in 0..0 /\ 1..0 = {}
      OBVIOUS
    <3> QED
      BY <3>1 DEF Made
  <2> QED
    BY <1>3, <2>1
<1>5. m - 1 \in 0..N /\ m - 1 < m /\ m \in 1..N /\ m \in Int
  BY <1>3, <1>4
<1>6. m - 1 \notin T
  BY <1>2, <1>3, <1>5
<1>7. PICK f : Made(D, F, x, m - 1, f)
  BY <1>5, <1>6
<1> DEFINE last == F[<<f[m - 1], m>>]
           g == [n \in 0..m |-> IF n = m THEN last ELSE f[n]]
<1>8. Made(D, F, x, m, g)
  <2>1. /\ f \in [0..(m - 1) -> D] /\ f[0] = x
        /\ \A n \in 1..(m - 1) : f[n] = F[<<f[n - 1], n>>]
    BY <1>7 DEF Made
  <2>2. last \in D
    <3>1. m - 1 \in 0..(m - 1)
      BY <1>5
    <3>2. f[m - 1] \in D
      BY <2>1, <3>1
    <3> QED
      BY <1>5, <3>2
  <2>3. \A n \in 0..m : g[n] = IF n = m THEN last ELSE f[n]
    OBVIOUS
  <2>4. g \in [0..m -> D]
    <3>1. \A n \in 0..m : n # m => n \in 0..(m - 1)
      BY <1>5
    <3> HIDE DEF last
    <3> QED
      BY <2>1, <2>2, <3>1
  <2> HIDE DEF g, last
  <2>5. 0 \in 0..m /\ 0 # m /\ m \in 0..m
    BY <1>4, <1>5
  <2>6. g[0] = x
    BY <2>1, <2>3, <2>5
  <2>7. ASSUME NEW n \in 1..m PROVE g[n] = F[<<g[n - 1], n>>]
    <3>1. n \in 0..m /\ n - 1 \in 0..m /\ n - 1 # m
      BY <1>5, <2>7
    <3>2. g[n - 1] = f[n - 1]
      BY <2>3, <3>1
    <3>3. CASE n = m
      BY <2>3, <2>5, <3>2, <3>3 DEF last
    <3>4. CASE n # m
      <4>1. n \in 1..(m - 1)
        BY <1>5, <2>7, <3>4
      <4> QED
        BY <2>1, <2>3, <3>1, <3>2, <3>4, <4>1
    <3> QED
      BY <3>3, <3>4
  <2> QED
    BY <2>4, <2>6, <2>7 DEF Made
<1> QED
  BY <1>3, <1>8

\* No flow is twice in the list.
Distinct(fs) == \A i, j \in 1..Len(fs) : fs[i] = fs[j] => i = j

Known(fs, f) == \E i \in 1..Len(fs) : fs[i] = f

\* The count of a range never ends the walk early.
LEMMA ReachedAll ==
  ASSUME NEW s \in MgenState, Distinct(s.flows), NEW item \in Nat \X Nat, item[1] <= item[2]
  PROVE  \A f : f \in Given!Reached(s, item) <=> Known(s.flows, f) /\ Given!Within(item, f)
<1> DEFINE fs == s.flows
           a == item[1]
           b == item[2]
           P == Given!Places(s, item)
<1>1. fs \in Seq(Nat) /\ Len(fs) \in Nat /\ DOMAIN fs = 1..Len(fs)
  BY LenProperties DEF MgenState
<1>2. P = {i \in 1..Len(fs) : a = 0 \/ fs[i] \in a..b}
  BY <1>1 DEF Given!Places, Given!Within
<1>3. a \in Nat /\ b \in Nat /\ a <= b
  OBVIOUS
<1> HIDE DEF P
<1>4. ASSUME NEW j \in P, a # 0
      PROVE  Given!Cardinality({k \in P : k <= j}) <= b - a + 1
  <2> DEFINE K == {k \in P : k <= j}
             h == [k \in K |-> fs[k]]
  <2>1. \A k \in K : k \in 1..Len(fs) /\ fs[k] \in a..b
    BY <1>2, <1>4
  <2> HIDE DEF K
  <2>2. h \in [K -> a..b]
    BY <2>1
  <2>3. \A k, l \in K : h[k] = h[l] => k = l
    BY <2>1 DEF Distinct
  <2>4. h \in Injection(K, a..b)
    BY <2>2, <2>3 DEF Injection, IsInjective
  <2>5. IsFiniteSet(a..b) /\ Cardinality(a..b) = IF a > b THEN 0 ELSE b - a + 1
    BY <1>3, FS_Interval
  <2> HIDE DEF h
  <2>6. Cardinality(K) <= Cardinality(a..b)
    BY <2>4, <2>5, FS_Injection
  <2>7. Cardinality(a..b) = b - a + 1
    BY <1>3, <2>5
  <2> QED
    BY <2>6, <2>7 DEF K, Given!Cardinality, Cardinality
<1>5. Given!Reached(s, item) = {fs[i] : i \in P}
  <2> DEFINE far == b - a + 1
             Q == {j \in P : a = 0 \/ Given!Cardinality({k \in P : k <= j}) <= far}
  <2>1. Q = P
    BY <1>4
  <2>2. Given!Reached(s, item) = {fs[i] : i \in Q}
    BY DEF Given!Reached, Given!UpTo, P
  <2> HIDE DEF Q
  <2> QED
    BY <2>1, <2>2
<1> QED
  BY <1>2, <1>5 DEF Known, Given!Within

\* The items up to n are not refused.
NoneRefused(c, n) == \A j \in 1..n : c.list[j][1] <= c.list[j][2]

\* The first n items tell something to f, which is a flow of fs.
ToldBy(c, n, f) == \E i \in 1..n : NoneRefused(c, i) /\ Given!Within(c.list[i], f)

\* What t is after the first n items of c, which s was given.
AfterItems(s, c, n, t) ==
  /\ KeepsGiven(s, t) /\ KeepsLog(s, t) /\ t.flows = s.flows
  /\ t.value = s.value /\ t.lock = s.lock
  /\ t.ok <=> NoneRefused(c, n)
  /\ \A f : f \in t.suspended <=>
       IF c.name = "SUSPEND" THEN f \in s.suspended \/ (Known(s.flows, f) /\ ToldBy(c, n, f))
       ELSE f \in s.suspended /\ ~(Known(s.flows, f) /\ ToldBy(c, n, f))

LEMMA PassedNext ==
  ASSUME NEW c, NEW n \in Nat \ {0}
  PROVE  /\ NoneRefused(c, n) <=> NoneRefused(c, n - 1) /\ c.list[n][1] <= c.list[n][2]
         /\ \A f : ToldBy(c, n, f) <=>
              ToldBy(c, n - 1, f) \/ (NoneRefused(c, n) /\ Given!Within(c.list[n], f))
<1>1. 1..n = 1..(n - 1) \cup {n}
  OBVIOUS
<1> QED
  BY <1>1 DEF NoneRefused, ToldBy

\* One more item.
LEMMA ItemDoes ==
  ASSUME NEW s \in MgenState, Distinct(s.flows), NEW c, Complete(c),
         NEW n \in 1..Len(c.list), NEW t, AfterItems(s, c, n - 1, t)
  PROVE  AfterItems(s, c, n, Given!Apply(t, c, c.list[n]))
<1> DEFINE item == c.list[n]
           u == Given!Apply(t, c, item)
<1>1. item \in Nat \X Nat /\ n \in Nat \ {0}
  <2>1. c.list \in Seq(Nat \X Nat)
    BY CompleteFacts
  <2> QED
    BY <2>1, ElementOfSeq
<1>2. /\ t \in MgenState /\ t.given = s.given /\ KeepsLog(s, t) /\ t.flows = s.flows
      /\ t.value = s.value /\ t.lock = s.lock
      /\ t.ok <=> NoneRefused(c, n - 1)
  BY DEF AfterItems, KeepsGiven
<1> HIDE DEF item
<1>3. /\ NoneRefused(c, n) <=> NoneRefused(c, n - 1) /\ item[1] <= item[2]
      /\ \A f : ToldBy(c, n, f) <=> ToldBy(c, n - 1, f)
                                    \/ (NoneRefused(c, n) /\ Given!Within(item, f))
  BY <1>1, PassedNext DEF item
<1>4. CASE ~t.ok
  <2>1. u = t
    BY <1>4 DEF Given!Apply
  <2> QED
    BY <1>2, <1>3, <1>4, <2>1 DEF AfterItems, item
<1>5. CASE t.ok /\ item[2] < item[1]
  <2>1. u = Given!Refused(t)
    BY <1>5 DEF Given!Apply
  <2>2. ~NoneRefused(c, n)
    BY <1>1, <1>3, <1>5
  <2>3. /\ KeepsGiven(t, u) /\ KeepsLog(t, u) /\ KeepsFlows(t, u)
        /\ u.value = t.value /\ u.lock = t.lock /\ u.ok = FALSE
    BY <1>2, <2>1, RefusedDoes
  <2> HIDE DEF u
  <2> QED
    BY <1>2, <1>3, <2>2, <2>3 DEF AfterItems, KeepsGiven, KeepsLog, KeepsFlows, u, item
<1>6. CASE t.ok /\ ~(item[2] < item[1])
  <2> DEFINE reached == Given!Reached(t, item)
             sus == IF c.name = "SUSPEND" THEN t.suspended \cup reached ELSE t.suspended \ reached
  <2>1. u = [t EXCEPT !.suspended = sus]
    BY <1>6 DEF Given!Apply
  <2>2. \A f : f \in reached <=> Known(s.flows, f) /\ Given!Within(item, f)
    BY <1>1, <1>2, <1>6, ReachedAll
  <2>3. reached \subseteq Nat
    <3>1. s.flows \in Seq(Nat)
      BY DEF MgenState
    <3> QED
      BY <2>2, <3>1, ElementOfSeq DEF Known
  <2> HIDE DEF reached
  <2>4. sus \in SUBSET Nat
    BY <1>2, <2>3 DEF MgenState
  <2>5. NoneRefused(c, n) /\ NoneRefused(c, n - 1)
    BY <1>1, <1>2, <1>3, <1>6
  <2>6. \A f : f \in t.suspended <=>
          IF c.name = "SUSPEND" THEN f \in s.suspended \/ (Known(s.flows, f) /\ ToldBy(c, n - 1, f))
          ELSE f \in s.suspended /\ ~(Known(s.flows, f) /\ ToldBy(c, n - 1, f))
    BY DEF AfterItems
  <2>7. \A f : f \in sus <=>
          IF c.name = "SUSPEND" THEN f \in s.suspended \/ (Known(s.flows, f) /\ ToldBy(c, n, f))
          ELSE f \in s.suspended /\ ~(Known(s.flows, f) /\ ToldBy(c, n, f))
    BY <1>3, <2>2, <2>5, <2>6
  <2> HIDE DEF sus
  <2>8. /\ u \in MgenState /\ u.given = t.given /\ KeepsLog(t, u) /\ u.flows = t.flows
        /\ u.value = t.value /\ u.lock = t.lock /\ u.ok = t.ok /\ u.suspended = sus
    BY <1>2, <2>1, <2>4 DEF MgenState, KeepsLog
  <2> HIDE DEF u
  <2> QED
    BY <1>2, <1>6, <2>5, <2>7, <2>8 DEF AfterItems, KeepsGiven, KeepsLog, u, item
<1> QED
  BY <1>4, <1>5, <1>6 DEF item

LEMMA ApplyTyped ==
  ASSUME NEW t \in MgenState, NEW c, NEW item \in Nat \X Nat
  PROVE  Given!Apply(t, c, item) \in MgenState
<1> DEFINE reached == Given!Reached(t, item)
           sus == IF c.name = "SUSPEND" THEN t.suspended \cup reached ELSE t.suspended \ reached
<1>1. reached \subseteq Nat
  <2>1. t.flows \in Seq(Nat) /\ DOMAIN t.flows = 1..Len(t.flows)
    BY LenProperties DEF MgenState
  <2>2. \A i \in DOMAIN t.flows : t.flows[i] \in Nat
    BY <2>1, ElementOfSeq
  <2> QED
    BY <2>2 DEF Given!Reached, Given!UpTo, Given!Places
<1> HIDE DEF reached
<1>2. sus \in SUBSET Nat
  BY <1>1 DEF MgenState
<1>3. CASE t.ok /\ ~(item[2] < item[1])
  <2>1. Given!Apply(t, c, item) = [t EXCEPT !.suspended = sus]
    BY <1>3 DEF Given!Apply, reached
  <2> HIDE DEF sus
  <2> QED
    BY <1>2, <2>1 DEF MgenState
<1>4. CASE ~(t.ok /\ ~(item[2] < item[1]))
  <2>1. Given!Apply(t, c, item) = t \/ Given!Apply(t, c, item) = Given!Refused(t)
    BY <1>4 DEF Given!Apply
  <2> QED
    BY <2>1, RefusedDoes DEF KeepsGiven
<1> QED
  BY <1>3, <1>4

LEMMA FlowCommandSteps ==
  ASSUME NEW s \in MgenState, Distinct(s.flows), s.ok = TRUE, NEW c, Complete(c)
  PROVE  AfterItems(s, c, Len(c.list), Given!FlowCommand(s, c))
<1> DEFINE N == Len(c.list)
           step(a, n) == IF n = 0 THEN s ELSE Given!Apply(a[n - 1], c, c.list[n])
           after == CHOOSE a : a = [n \in 0..N |-> step(a, n)]
           F == [p \in MgenState \X (1..N) |-> Given!Apply(p[1], c, c.list[p[2]])]
<1>1. N \in Nat /\ \A n \in 1..N : c.list[n] \in Nat \X Nat
  <2>1. c.list \in Seq(Nat \X Nat)
    BY CompleteFacts
  <2> QED
    BY <2>1, ElementOfSeq, LenProperties
<1>2. Given!FlowCommand(s, c) = after[N]
  BY DEF Given!FlowCommand
<1> HIDE DEF N
<1>3. F \in [MgenState \X (1..N) -> MgenState]
  BY <1>1, ApplyTyped
<1>4. \A x \in MgenState, n \in 1..N : F[<<x, n>>] = Given!Apply(x, c, c.list[n])
  OBVIOUS
<1> HIDE DEF F
<1>5. PICK g : Made(MgenState, F, s, N, g)
  BY <1>1, <1>3, MadeExists
<1>6. g = [n \in 0..N |-> step(g, n)]
  <2>1. g \in [0..N -> MgenState] /\ g[0] = s /\ \A n \in 1..N : g[n] = F[<<g[n - 1], n>>]
    BY <1>5 DEF Made
  <2>2. ASSUME NEW n \in 0..N PROVE g[n] = step(g, n)
    <3>1. CASE n = 0
      BY <2>1, <3>1
    <3>2. CASE n # 0
      <4>1. n \in 1..N /\ n - 1 \in 0..N
        BY <1>1, <3>2
      <4>2. g[n - 1] \in MgenState
        BY <2>1, <4>1
      <4> QED
        BY <1>4, <2>1, <3>2, <4>1, <4>2
    <3> QED
      BY <3>1, <3>2
  <2> HIDE DEF step
  <2> QED
    BY <2>1, <2>2
<1>7. after = [n \in 0..N |-> step(after, n)]
  <2> HIDE DEF step
  <2> QED
    BY <1>6
<1> HIDE DEF after
<1>8. \A n \in 0..N : after[n] = step(after, n)
  <2> HIDE DEF step
  <2> QED
    BY <1>7
<1> DEFINE Good(n) == AfterItems(s, c, n, after[n])
           T == {n \in 0..N : ~Good(n)}
<1>9. SUFFICES ASSUME T # {} PROVE FALSE
  <2>1. N \in 0..N
    BY <1>1
  <2> QED
    BY <1>2, <2>1 DEF N
<1>10. PICK n \in T : \A y \in T : n <= y
  <2>1. T \subseteq Nat
    BY <1>1
  <2> HIDE DEF T
  <2> QED
    BY <1>9, <2>1, LeastOf
<1>11. n \in 0..N /\ ~Good(n)
  BY <1>10
<1>12. n # 0
  <2>1. 0 \in 0..N /\ 1..0 = {}
    BY <1>1
  <2>2. after[0] = s
    BY <1>8, <2>1
  <2>3. AfterItems(s, c, 0, s)
    BY <2>1 DEF AfterItems, KeepsGiven, KeepsLog, NoneRefused, ToldBy
  <2> QED
    BY <1>11, <2>2, <2>3
<1>13. n - 1 \in 0..N /\ n - 1 < n /\ n \in 1..N
  BY <1>1, <1>11, <1>12
<1>14. Good(n - 1)
  BY <1>10, <1>13
<1>15. after[n] = Given!Apply(after[n - 1], c, c.list[n])
  BY <1>8, <1>11, <1>12
<1>16. Good(n)
  BY <1>13, <1>14, <1>15, ItemDoes DEF N
<1> QED
  BY <1>11, <1>16

-------------------------------------------------------------------------------
(* One command.                                                            *)

\* What the rest of the command starts from.
Hear(s, c, override) ==
  [s EXCEPT !.ok = TRUE, !.given = Append(s.given, [command |-> c, override |-> override])]

\* What c makes of s, when it was heard.
Does(s, t, c, override) ==
  /\ KeepsGiven(s, t) /\ Settles(s, t, c, override)
  /\ LogOk(s) => LogOk(t)
  /\ IF c.name = "EVENT"
     THEN c.list[1][1] \in Nat /\ Becoming(s.flows, t.flows, c.list[1][1])
     ELSE t.flows = s.flows
  /\ IF c.name \in Given!FlowCommands
     THEN \A f : f \in t.suspended <=>
            IF c.name = "SUSPEND"
            THEN f \in s.suspended \/ (Known(s.flows, f) /\ ToldBy(c, Len(c.list), f))
            ELSE f \in s.suspended /\ ~(Known(s.flows, f) /\ ToldBy(c, Len(c.list), f))
     ELSE t.suspended = s.suspended

LEMMA HearTyped ==
  ASSUME NEW s \in MgenState, NEW c, Complete(c), NEW override \in BOOLEAN
  PROVE  LET h == Hear(s, c, override)
         IN /\ h \in MgenState /\ h.ok = TRUE /\ KeepsLog(s, h) /\ KeepsFlows(s, h)
            /\ h.value = s.value /\ h.lock = s.lock
            /\ h.given = Append(s.given, [command |-> c, override |-> override])
<1> DEFINE r == [command |-> c, override |-> override]
           gs == Append(s.given, r)
<1>1. r \in Heard
  BY CompleteFacts DEF Heard
<1>2. gs \in Seq(Heard)
  BY <1>1, AppendProperties DEF MgenState
<1> HIDE DEF r
<1>3. Hear(s, c, override) = [s EXCEPT !.ok = TRUE, !.given = gs]
  BY DEF Hear, r
<1> HIDE DEF gs
<1> QED
  BY <1>2, <1>3 DEF MgenState, KeepsLog, KeepsFlows, gs, r

\* A command that sets nothing, logs nothing and has no flow.
LEMMA DoesNothing ==
  ASSUME NEW s \in MgenState, NEW t, NEW c, NEW override, t = s \/ t = Given!Refused(s),
         c.name \notin Named \cup Given!FlowCommands \cup {"EVENT"}
  PROVE  Does(s, t, c, override)
<1>1. KeepsGiven(s, t) /\ KeepsLog(s, t) /\ KeepsFlows(s, t) /\ t.value = s.value /\ t.lock = s.lock
  BY RefusedDoes DEF KeepsGiven, KeepsLog, KeepsFlows
<1>2. Settles(s, t, c, override)
  BY <1>1, SettledAlone
<1> QED
  BY <1>1, <1>2, LogAlone DEF Does, KeepsFlows

\* A command that has no flow.
LEMMA DoesNoFlow ==
  ASSUME NEW s, NEW t, NEW c, NEW override,
         KeepsGiven(s, t), KeepsFlows(s, t), Settles(s, t, c, override), LogOk(s) => LogOk(t),
         c.name \notin Given!FlowCommands \cup {"EVENT"}
  PROVE  Does(s, t, c, override)
BY DEF Does, KeepsFlows

LEMMA CommandDoes ==
  ASSUME NEW before \in MgenState, Distinct(before.flows), NEW c, Complete(c),
         NEW override \in BOOLEAN
  PROVE  Does(Hear(before, c, override), Given!Command(before, c, override), c, override)
<1> DEFINE s == Hear(before, c, override)
           t == Given!Command(before, c, override)
           name == c.name
<1>1. s \in MgenState /\ s.ok = TRUE /\ Distinct(s.flows)
  BY HearTyped DEF KeepsFlows
<1>2. s = [before EXCEPT !.ok = TRUE,
                         !.given = Append(before.given, [command |-> c, override |-> override])]
  BY DEF Hear
<1>3. t = CASE name \in Given!Checked -> Given!SetChecked(s, c, override)
            [] name \in Given!Guarded -> Given!SetGuarded(s, c, override)
            [] name \in Given!Flags -> Given!SetFlag(s, c)
            [] name \in Given!Switches -> Given!SetSwitch(s, c)
            [] name \in Given!LogCommands -> Given!SetLog(s, c, override)
            [] name = "BINARY" -> Given!SetBinary(s)
            [] name = "EVENT" -> Given!Event(s, c)
            [] name \in Given!FlowCommands -> Given!FlowCommand(s, c)
            [] name \in {"PAUSE", "RECONNECT"} -> Given!FindFlow(s, c)
            [] name = "DLOG" -> IF override /\ c.arg = "bad" THEN Given!Refused(s) ELSE s
            [] OTHER -> s
  BY <1>2 DEF Given!Command
<1> HIDE DEF s, t
<1> DEFINE Flowless == Given!Checked \cup Given!Guarded \cup Given!Flags \cup Given!Switches
                       \cup Given!LogCommands \cup {"BINARY"}
<1>4. \A n \in Flowless : n \notin Given!FlowCommands \cup {"EVENT"}
  BY DEF Given!Checked, Given!Guarded, Given!Flags, Given!Switches, Given!LogCommands,
         Given!FlowCommands
<1>5. \A n \in Named : n \in Flowless
  BY DEF Named
<1>6. CASE name \in Given!Checked
  <2>1. t = Given!SetChecked(s, c, override)
    BY <1>3, <1>6 DEF Given!Checked, Given!Guarded, Given!Flags, Given!Switches,
       Given!LogCommands, Given!FlowCommands
  <2> QED
    BY <1>1, <1>4, <1>6, <2>1, SetCheckedDoes, LogAlone, DoesNoFlow DEF s, t
<1>7. CASE name \in Given!Guarded
  <2>1. t = Given!SetGuarded(s, c, override)
    BY <1>3, <1>7 DEF Given!Checked, Given!Guarded, Given!Flags, Given!Switches,
       Given!LogCommands, Given!FlowCommands
  <2> QED
    BY <1>1, <1>4, <1>7, <2>1, SetGuardedDoes, LogAlone, DoesNoFlow DEF s, t
<1>8. CASE name \in Given!Flags
  <2>1. t = Given!SetFlag(s, c)
    BY <1>3, <1>8 DEF Given!Checked, Given!Guarded, Given!Flags, Given!Switches,
       Given!LogCommands, Given!FlowCommands
  <2> QED
    BY <1>1, <1>4, <1>8, <2>1, SetFlagDoes, LogAlone, DoesNoFlow DEF s, t
<1>9. CASE name \in Given!Switches
  <2>1. t = Given!SetSwitch(s, c)
    BY <1>3, <1>9 DEF Given!Checked, Given!Guarded, Given!Flags, Given!Switches,
       Given!LogCommands, Given!FlowCommands
  <2> QED
    BY <1>1, <1>4, <1>9, <2>1, SetSwitchDoes, LogAlone, DoesNoFlow DEF s, t
<1>10. CASE name \in Given!LogCommands
  <2>1. t = Given!SetLog(s, c, override)
    BY <1>3, <1>10 DEF Given!Checked, Given!Guarded, Given!Flags, Given!Switches,
       Given!LogCommands, Given!FlowCommands
  <2> QED
    BY <1>1, <1>4, <1>10, <2>1, SetLogDoes, DoesNoFlow DEF s, t
<1>11. CASE name = "BINARY"
  <2>1. t = Given!SetBinary(s)
    BY <1>3, <1>11 DEF Given!Checked, Given!Guarded, Given!Flags, Given!Switches,
       Given!LogCommands, Given!FlowCommands
  <2> QED
    BY <1>1, <1>4, <1>11, <2>1, SetBinaryDoes, DoesNoFlow DEF s, t
<1>12. CASE name = "EVENT"
  <2>1. t = Given!Event(s, c)
    BY <1>3, <1>12 DEF Given!Checked, Given!Guarded, Given!Flags, Given!Switches,
       Given!LogCommands, Given!FlowCommands
  <2>2. name \notin Given!FlowCommands
    BY <1>12 DEF Given!FlowCommands
  <2>3. /\ KeepsGiven(s, t) /\ KeepsLog(s, t) /\ Settles(s, t, c, override)
        /\ t.suspended = s.suspended
        /\ c.list[1][1] \in Nat /\ Becoming(s.flows, t.flows, c.list[1][1])
    BY <1>1, <1>12, <2>1, EventDoes
  <2> QED
    BY <1>12, <2>2, <2>3, LogAlone DEF Does, s, t
<1>13. CASE name \in Given!FlowCommands
  <2>1. t = Given!FlowCommand(s, c)
    BY <1>3, <1>13 DEF Given!Checked, Given!Guarded, Given!Flags, Given!Switches,
       Given!LogCommands, Given!FlowCommands
  <2>2. name # "EVENT" /\ name \notin Named
    BY <1>13 DEF Given!FlowCommands, Named, Given!Checked, Given!Guarded
  <2>3. AfterItems(s, c, Len(c.list), t)
    BY <1>1, <2>1, FlowCommandSteps
  <2>4. Settles(s, t, c, override)
    BY <2>2, <2>3, SettledAlone DEF AfterItems
  <2> QED
    BY <1>13, <2>2, <2>3, <2>4, LogAlone DEF Does, AfterItems, s, t
<1>14. CASE name \notin Flowless \cup Given!FlowCommands \cup {"EVENT"}
  <2>1. t = s \/ t = Given!Refused(s)
    BY <1>3, <1>14 DEF Given!FindFlow
  <2> QED
    BY <1>1, <1>5, <1>14, <2>1, DoesNothing DEF s, t
<1> QED
  BY <1>6, <1>7, <1>8, <1>9, <1>10, <1>11, <1>12, <1>13, <1>14

-------------------------------------------------------------------------------
(* The commands given.                                                     *)

\* The places in g of what sets n.
Sets(r, n) == r.command.name = n /\ r.command.arg # "bad"

LEMMA GreatestPlace ==
  ASSUME NEW L \in Nat, NEW S, S \subseteq 1..L, S # {}
  PROVE  /\ Given!Max(S) \in S
         /\ L \in S => Given!Max(S) = L
<1> DEFINE T == {L - x : x \in S}
<1>1. PICK m \in T : \A y \in T : m <= y
  <2>1. T \subseteq Nat
    <3>1. \A x \in S : L - x \in Nat
      <4>1. \A x \in S : x \in 1..L
        OBVIOUS
      <4> QED
        BY <4>1
    <3> QED
      BY <3>1
  <2>2. T # {}
    OBVIOUS
  <2> HIDE DEF T
  <2> QED
    BY <2>1, <2>2, LeastOf
<1>2. PICK x \in S : m = L - x
  BY <1>1
<1>3. \A y \in S : x >= y
  <2>1. ASSUME NEW y \in S PROVE x >= y
    <3>1. L - y \in T
      OBVIOUS
    <3>2. m <= L - y
      BY <1>1, <3>1
    <3> QED
      BY <1>2, <3>2
  <2> QED
    BY <2>1
<1> HIDE DEF T
<1>4. Given!Max(S) \in S /\ \A y \in S : Given!Max(S) >= y
  BY <1>3 DEF Given!Max
<1>5. ASSUME L \in S PROVE Given!Max(S) = L
  <2> DEFINE k == Given!Max(S)
  <2>1. k \in 1..L /\ k >= L
    BY <1>4, <1>5
  <2> HIDE DEF k
  <2>2. k = L
    BY <2>1
  <2> QED
    BY <2>2 DEF k
<1> QED
  BY <1>4, <1>5

\* One more command is given.
LEMMA SettingNext ==
  ASSUME NEW g \in Seq(Heard), NEW r \in Heard, NEW n
  PROVE  LET L == Len(g) + 1
         IN /\ Given!Setting(g, n) \subseteq 1..Len(g)
            /\ Given!Setting(Append(g, r), n) =
                 Given!Setting(g, n) \cup (IF Sets(r, n) THEN {L} ELSE {})
            /\ \A i \in 1..Len(g) : Append(g, r)[i] = g[i]
            /\ Append(g, r)[L] = r
            /\ Len(Append(g, r)) = L /\ L \in Nat /\ Len(g) \in Nat
<1> DEFINE h == Append(g, r)
           L == Len(g) + 1
<1>1. /\ h \in Seq(Heard) /\ Len(h) = L /\ Len(g) \in Nat
      /\ \A i \in 1..Len(g) : h[i] = g[i]
      /\ h[L] = r
  BY AppendProperties, LenProperties
<1>2. DOMAIN h = 1..L /\ DOMAIN g = 1..Len(g)
  BY <1>1, LenProperties
<1> HIDE DEF h
<1>3. 1..L = 1..Len(g) \cup {L} /\ L \notin 1..Len(g)
  BY <1>1
<1>4. Given!Setting(h, n) = Given!Setting(g, n) \cup (IF Sets(r, n) THEN {L} ELSE {})
  BY <1>1, <1>2, <1>3 DEF Given!Setting, Sets
<1> QED
  BY <1>1, <1>2, <1>4 DEF Given!Setting, h

\* What is in force for n, and whether it overrides.
Overridden(g, n) == {i \in Given!Setting(g, n) : g[i].override}

LEMMA InForceNext ==
  ASSUME NEW g \in Seq(Heard), NEW r \in Heard, NEW n
  PROVE  /\ Given!InForce(Append(g, r), n) =
              IF Sets(r, n) /\ (r.override \/ Overridden(g, n) = {}) THEN r.command.arg
              ELSE Given!InForce(g, n)
         /\ Overridden(Append(g, r), n) # {} <=>
              Overridden(g, n) # {} \/ (Sets(r, n) /\ r.override)
<1> DEFINE h == Append(g, r)
           L == Len(g) + 1
           A == Given!Setting(g, n)
           B == Overridden(g, n)
           C == Given!Setting(h, n)
           D == Overridden(h, n)
<1>1. /\ A \subseteq 1..Len(g) /\ C = A \cup (IF Sets(r, n) THEN {L} ELSE {})
      /\ \A i \in 1..Len(g) : h[i] = g[i]
      /\ h[L] = r
      /\ L \in Nat /\ Len(g) \in Nat
  BY SettingNext
<1>2. L \notin 1..Len(g) /\ 1..Len(g) \subseteq 1..L /\ L \in 1..L
  BY <1>1
<1>3. r.override \in BOOLEAN
  BY DEF Heard
<1>4. B = {i \in A : g[i].override} /\ D = {i \in C : h[i].override}
  BY DEF Overridden
<1>5. /\ Given!InForce(h, n) = Given!LastOf(h, IF D # {} THEN D ELSE C)
      /\ Given!InForce(g, n) = Given!LastOf(g, IF B # {} THEN B ELSE A)
  BY <1>4 DEF Given!InForce
<1> HIDE DEF h, L, A, B, C, D
<1>6. D = B \cup (IF Sets(r, n) /\ r.override THEN {L} ELSE {}) /\ B \subseteq A
  BY <1>1, <1>2, <1>3, <1>4
<1>7. ASSUME NEW S, S \subseteq 1..Len(g) PROVE Given!LastOf(h, S) = Given!LastOf(g, S)
  BY <1>1, <1>7, GreatestPlace DEF Given!LastOf
<1>8. ASSUME NEW S, S \subseteq 1..L, L \in S PROVE Given!LastOf(h, S) = r.command.arg
  BY <1>1, <1>8, GreatestPlace DEF Given!LastOf
<1>9. CASE Sets(r, n) /\ (r.override \/ B = {})
  <2> DEFINE S == IF D # {} THEN D ELSE C
  <2>1. L \in S /\ S \subseteq 1..L
    BY <1>1, <1>2, <1>6, <1>9
  <2> HIDE DEF S
  <2>2. Given!LastOf(h, S) = r.command.arg
    BY <1>8, <2>1
  <2> QED
    BY <1>5, <1>6, <1>9, <2>2 DEF S, h, B, D
<1>10. CASE ~(Sets(r, n) /\ (r.override \/ B = {}))
  <2> DEFINE S == IF D # {} THEN D ELSE C
  <2>1. S = (IF B # {} THEN B ELSE A) /\ S \subseteq 1..Len(g)
    BY <1>1, <1>6, <1>10
  <2> HIDE DEF S
  <2>2. Given!LastOf(h, S) = Given!LastOf(g, S)
    BY <1>7, <2>1
  <2> QED
    BY <1>5, <1>6, <1>10, <2>1, <2>2 DEF S, h, B, D
<1> QED
  BY <1>9, <1>10

\* f has been made by one of the commands given.
MadeBy(g, f) == \E i \in 1..Len(g) : Given!Makes(g[i].command, f)

LEMMA TellingNext ==
  ASSUME NEW g \in Seq(Heard), NEW r \in Heard, NEW f
  PROVE  /\ Given!Telling(g, f) \subseteq 1..Len(g)
         /\ Given!Telling(Append(g, r), f) =
              Given!Telling(g, f) \cup
                (IF Given!Tells(r.command, f) /\ MadeBy(g, f) THEN {Len(g) + 1} ELSE {})
         /\ MadeBy(Append(g, r), f) <=> MadeBy(g, f) \/ Given!Makes(r.command, f)
<1> DEFINE h == Append(g, r)
           L == Len(g) + 1
<1>1. /\ h \in Seq(Heard) /\ Len(h) = L /\ Len(g) \in Nat
      /\ \A i \in 1..Len(g) : h[i] = g[i]
      /\ h[L] = r
  BY AppendProperties, LenProperties
<1>2. DOMAIN h = 1..L /\ DOMAIN g = 1..Len(g)
  BY <1>1, LenProperties
<1> HIDE DEF h
<1>3. 1..L = 1..Len(g) \cup {L} /\ L \notin 1..Len(g) /\ 1..(L - 1) = 1..Len(g)
      /\ \A i \in 1..Len(g) : 1..(i - 1) \subseteq 1..Len(g)
  BY <1>1
<1> HIDE DEF L
<1>4. MadeBy(h, f) <=> MadeBy(g, f) \/ Given!Makes(r.command, f)
  BY <1>1, <1>3 DEF MadeBy
<1>5. ASSUME NEW i \in 1..Len(g)
      PROVE  (\E j \in 1..(i - 1) : Given!Makes(h[j].command, f)) <=>
             (\E j \in 1..(i - 1) : Given!Makes(g[j].command, f))
  BY <1>1, <1>3
<1>6. (\E j \in 1..(L - 1) : Given!Makes(h[j].command, f)) <=> MadeBy(g, f)
  BY <1>1, <1>3 DEF MadeBy
<1> DEFINE After(q, i) == \E j \in 1..(i - 1) : Given!Makes(q[j].command, f)
<1>7. /\ Given!Telling(h, f) = {i \in 1..L : Given!Tells(h[i].command, f) /\ After(h, i)}
      /\ Given!Telling(g, f) = {i \in 1..Len(g) : Given!Tells(g[i].command, f) /\ After(g, i)}
  BY <1>2 DEF Given!Telling
<1>8. (\A i \in 1..Len(g) : After(h, i) <=> After(g, i)) /\ (After(h, L) <=> MadeBy(g, f))
  BY <1>5, <1>6
<1> HIDE DEF After
<1>9. Given!Telling(h, f) = Given!Telling(g, f) \cup
        (IF Given!Tells(r.command, f) /\ MadeBy(g, f) THEN {L} ELSE {})
  BY <1>1, <1>3, <1>7, <1>8
<1> QED
  BY <1>4, <1>7, <1>9 DEF h, L

\* f is suspended as g has it.
LastTold(g, f) ==
  \E i \in Given!Telling(g, f) :
    /\ \A j \in Given!Telling(g, f) : j <= i
    /\ g[i].command.name = "SUSPEND"

LEMMA LastToldNext ==
  ASSUME NEW g \in Seq(Heard), NEW r \in Heard, NEW f
  PROVE  LastTold(Append(g, r), f) <=>
           IF Given!Tells(r.command, f) /\ MadeBy(g, f) THEN r.command.name = "SUSPEND"
           ELSE LastTold(g, f)
<1> DEFINE h == Append(g, r)
           L == Len(g) + 1
           A == Given!Telling(g, f)
           B == Given!Telling(h, f)
<1>1. /\ A \subseteq 1..Len(g)
      /\ B = A \cup (IF Given!Tells(r.command, f) /\ MadeBy(g, f) THEN {L} ELSE {})
  BY TellingNext
<1>2. (\A i \in 1..Len(g) : h[i] = g[i]) /\ h[L] = r /\ Len(g) \in Nat
  BY AppendProperties, LenProperties
<1>3. LastTold(h, f) <=> \E i \in B : (\A j \in B : j <= i) /\ h[i].command.name = "SUSPEND"
  BY DEF LastTold
<1>4. LastTold(g, f) <=> \E i \in A : (\A j \in A : j <= i) /\ g[i].command.name = "SUSPEND"
  BY DEF LastTold
<1> HIDE DEF h, A, B
<1>5. CASE Given!Tells(r.command, f) /\ MadeBy(g, f)
  <2>1. B = A \cup {L}
    BY <1>1, <1>5
  <2>2. \A j \in A : j < L /\ j \in Int
    BY <1>1, <1>2
  <2>3. L \in Int
    BY <1>2
  <2> HIDE DEF L
  <2>4. ASSUME NEW i \in B, \A j \in B : j <= i PROVE i = L
    <3>1. L <= i /\ (i = L \/ i \in A)
      BY <2>1, <2>4
    <3>2. CASE i \in A
      BY <2>2, <2>3, <3>1, <3>2
    <3> QED
      BY <3>1, <3>2
  <2>5. \A j \in B : j <= L
    BY <2>1, <2>2, <2>3
  <2> QED
    BY <1>2, <1>3, <1>5, <2>1, <2>4, <2>5 DEF h
<1>6. CASE ~(Given!Tells(r.command, f) /\ MadeBy(g, f))
  <2>1. B = A
    BY <1>1, <1>6
  <2> QED
    BY <1>1, <1>2, <1>3, <1>4, <1>6, <2>1 DEF h
<1> QED
  BY <1>5, <1>6

-------------------------------------------------------------------------------
(* What commands have made of mgen.                                        *)

SettingsOk(s) ==
  \A n \in Named \ {"RXBUFFER"} :
    /\ s.value[n] = Given!InForce(s.given, n)
    /\ s.lock[n] <=> Overridden(s.given, n) # {}

FlowsOk(s) ==
  /\ Distinct(s.flows)
  /\ \A f : Known(s.flows, f) <=> MadeBy(s.given, f)
  /\ \A f : f \in s.suspended => Known(s.flows, f)
  /\ \A f : Known(s.flows, f) => (f \in s.suspended <=> LastTold(s.given, f))

\* The invariant of Commands.
Obeyed(s) == s \in MgenState /\ SettingsOk(s) /\ LogOk(s) /\ FlowsOk(s)

LEMMA TellsIs ==
  ASSUME NEW c, Complete(c), NEW f
  PROVE  /\ Given!Tells(c, f) <=> c.name \in Given!FlowCommands /\ ToldBy(c, Len(c.list), f)
         /\ Given!Makes(c, f) <=> c.name = "EVENT" /\ c.list[1][1] = f
<1>1. DOMAIN c.list = 1..Len(c.list)
  BY CompleteFacts, LenProperties
<1> QED
  BY <1>1 DEF Given!Tells, Given!Makes, ToldBy, NoneRefused

\* One more command is heard: what was said of the settings, and of the flows.
LEMMA SettingsObeyed ==
  ASSUME NEW s \in MgenState, SettingsOk(s), NEW c, Complete(c), NEW override \in BOOLEAN,
         NEW t, Does(Hear(s, c, override), t, c, override)
  PROVE  SettingsOk(t)
<1> DEFINE h == Hear(s, c, override)
           r == [command |-> c, override |-> override]
           g == s.given
<1>1. h.value = s.value /\ h.lock = s.lock /\ h.given = Append(g, r)
  BY HearTyped
<1>2. r \in Heard /\ r.command = c /\ r.override = override /\ g \in Seq(Heard)
  BY CompleteFacts DEF Heard, MgenState
<1>3. Settles(h, t, c, override) /\ t.given = h.given
  BY DEF Does, KeepsGiven
<1> HIDE DEF h, r
<1> SUFFICES ASSUME NEW n \in Named \ {"RXBUFFER"}
             PROVE  /\ t.value[n] = Given!InForce(t.given, n)
                    /\ t.lock[n] <=> Overridden(t.given, n) # {}
  BY DEF SettingsOk
<1>4. s.value[n] = Given!InForce(g, n) /\ (s.lock[n] <=> Overridden(g, n) # {})
  BY DEF SettingsOk
<1>5. s.lock[n] \in BOOLEAN
  BY DEF MgenState
<1>6. /\ Given!InForce(t.given, n) =
           IF Sets(r, n) /\ (override \/ Overridden(g, n) = {}) THEN c.arg
           ELSE Given!InForce(g, n)
      /\ Overridden(t.given, n) # {} <=> Overridden(g, n) # {} \/ (Sets(r, n) /\ override)
  BY <1>1, <1>2, <1>3, InForceNext
<1>7. Sets(r, n) <=> c.name = n /\ c.arg # "bad"
  BY <1>2 DEF Sets
<1>8. /\ n # c.name => t.value[n] = s.value[n] /\ t.lock[n] = s.lock[n]
      /\ n = c.name =>
           IF c.arg = "bad" \/ (s.lock[n] /\ ~override)
           THEN t.value[n] = s.value[n] /\ t.lock[n] = s.lock[n]
           ELSE t.value[n] = c.arg /\ t.lock[n] = (s.lock[n] \/ override)
  BY <1>1, <1>3 DEF Settles
<1>9. CASE ~Sets(r, n)
  BY <1>4, <1>6, <1>7, <1>8, <1>9
<1>10. CASE Sets(r, n)
  <2>1. n = c.name /\ c.arg # "bad"
    BY <1>7, <1>10
  <2>2. CASE s.lock[n] /\ ~override
    BY <1>4, <1>6, <1>8, <2>1, <2>2
  <2>3. CASE ~(s.lock[n] /\ ~override)
    <3>1. t.value[n] = c.arg /\ t.lock[n] = (s.lock[n] \/ override)
      BY <1>8, <2>1, <2>3
    <3>2. override \/ Overridden(g, n) = {}
      BY <1>4, <2>3
    <3> QED
      BY <1>4, <1>6, <1>10, <3>1, <3>2
  <2> QED
    BY <2>2, <2>3
<1> QED
  BY <1>9, <1>10

LEMMA BecomingKnown ==
  ASSUME NEW old \in Seq(Nat), NEW new, NEW f \in Nat, Becoming(old, new, f), Distinct(old)
  PROVE  /\ Distinct(new)
         /\ \A k : Known(new, k) <=> Known(old, k) \/ k = f
<1>1. CASE Known(old, f)
  BY <1>1 DEF Becoming, Known, Distinct
<1>2. CASE ~Known(old, f)
  <2>1. new = Append(old, f)
    BY <1>2 DEF Becoming, Known
  <2>2. /\ Len(new) = Len(old) + 1 /\ Len(old) \in Nat
        /\ \A i \in 1..Len(old) : new[i] = old[i]
        /\ new[Len(old) + 1] = f
    BY <2>1, AppendProperties, LenProperties
  <2>3. 1..Len(new) = 1..Len(old) \cup {Len(old) + 1}
    BY <2>2
  <2> QED
    BY <1>2, <2>2, <2>3 DEF Known, Distinct
<1> QED
  BY <1>1, <1>2

LEMMA FlowsObeyed ==
  ASSUME NEW s \in MgenState, FlowsOk(s), NEW c, Complete(c), NEW override \in BOOLEAN,
         NEW t, Does(Hear(s, c, override), t, c, override)
  PROVE  FlowsOk(t)
<1> DEFINE h == Hear(s, c, override)
           r == [command |-> c, override |-> override]
           g == s.given
           e == c.list[1][1]
           N == Len(c.list)
<1>1. h.flows = s.flows /\ h.suspended = s.suspended /\ h.given = Append(g, r)
  BY HearTyped DEF KeepsFlows
<1>2. r \in Heard /\ r.command = c /\ g \in Seq(Heard) /\ s.flows \in Seq(Nat)
  BY CompleteFacts DEF Heard, MgenState
<1>3. /\ IF c.name = "EVENT" THEN e \in Nat /\ Becoming(s.flows, t.flows, e)
         ELSE t.flows = s.flows
      /\ IF c.name \in Given!FlowCommands
         THEN \A f : f \in t.suspended <=>
                IF c.name = "SUSPEND"
                THEN f \in s.suspended \/ (Known(s.flows, f) /\ ToldBy(c, N, f))
                ELSE f \in s.suspended /\ ~(Known(s.flows, f) /\ ToldBy(c, N, f))
         ELSE t.suspended = s.suspended
      /\ t.given = Append(g, r)
  BY <1>1 DEF Does, KeepsGiven
<1> HIDE DEF h, r, e, N
<1>4. /\ Distinct(s.flows)
      /\ \A f : Known(s.flows, f) <=> MadeBy(g, f)
      /\ \A f : f \in s.suspended => Known(s.flows, f)
      /\ \A f : Known(s.flows, f) => (f \in s.suspended <=> LastTold(g, f))
  BY DEF FlowsOk
<1>5. \A f : MadeBy(t.given, f) <=> MadeBy(g, f) \/ (c.name = "EVENT" /\ e = f)
  BY <1>2, <1>3, TellingNext, TellsIs DEF e
<1>6. \A f : LastTold(t.given, f) <=>
        IF c.name \in Given!FlowCommands /\ ToldBy(c, N, f) /\ MadeBy(g, f)
        THEN c.name = "SUSPEND" ELSE LastTold(g, f)
  BY <1>2, <1>3, LastToldNext, TellsIs DEF N
<1>7. CASE c.name = "EVENT"
  <2>1. c.name \notin Given!FlowCommands
    BY <1>7 DEF Given!FlowCommands
  <2>2. Distinct(t.flows) /\ \A k : Known(t.flows, k) <=> Known(s.flows, k) \/ k = e
    BY <1>2, <1>3, <1>4, <1>7, BecomingKnown
  <2>3. t.suspended = s.suspended /\ \A f : LastTold(t.given, f) <=> LastTold(g, f)
    BY <1>3, <1>6, <2>1
  <2>4. \A f : LastTold(g, f) => MadeBy(g, f)
    <3>1. ASSUME NEW f, NEW i \in Given!Telling(g, f) PROVE MadeBy(g, f)
      <4>1. i \in DOMAIN g /\ \E j \in 1..(i - 1) : Given!Makes(g[j].command, f)
        BY <3>1 DEF Given!Telling
      <4>2. DOMAIN g = 1..Len(g) /\ Len(g) \in Nat
        BY <1>2, LenProperties
      <4> QED
        BY <4>1, <4>2 DEF MadeBy
    <3> QED
      BY <3>1 DEF LastTold
  <2> QED
    BY <1>4, <1>5, <1>7, <2>2, <2>3, <2>4 DEF FlowsOk
<1>8. CASE c.name # "EVENT" /\ c.name \notin Given!FlowCommands
  <2>1. t.flows = s.flows /\ t.suspended = s.suspended
    BY <1>3, <1>8
  <2> QED
    BY <1>4, <1>5, <1>6, <1>8, <2>1 DEF FlowsOk
<1>9. CASE c.name # "EVENT" /\ c.name \in Given!FlowCommands
  <2>1. t.flows = s.flows
    BY <1>3, <1>9
  <2>2. \A f : MadeBy(t.given, f) <=> MadeBy(g, f)
    BY <1>5, <1>9
  <2>3. CASE c.name = "SUSPEND"
    <3>1. \A f : f \in t.suspended <=> f \in s.suspended \/ (Known(s.flows, f) /\ ToldBy(c, N, f))
      BY <1>3, <1>9, <2>3
    <3> QED
      BY <1>4, <1>6, <1>9, <2>1, <2>2, <2>3, <3>1 DEF FlowsOk
  <2>4. CASE c.name # "SUSPEND"
    <3>1. \A f : f \in t.suspended <=> f \in s.suspended /\ ~(Known(s.flows, f) /\ ToldBy(c, N, f))
      BY <1>3, <1>9, <2>4
    <3> QED
      BY <1>4, <1>6, <1>9, <2>1, <2>2, <2>4, <3>1 DEF FlowsOk
  <2> QED
    BY <2>3, <2>4
<1> QED
  BY <1>7, <1>8, <1>9

LEMMA CommandObeyed ==
  ASSUME NEW s, Obeyed(s), NEW c, Complete(c), NEW override \in BOOLEAN
  PROVE  Obeyed(Given!Command(s, c, override))
<1> DEFINE h == Hear(s, c, override)
           t == Given!Command(s, c, override)
<1>1. s \in MgenState /\ SettingsOk(s) /\ LogOk(s) /\ FlowsOk(s) /\ Distinct(s.flows)
  BY DEF Obeyed, FlowsOk
<1>2. Does(h, t, c, override)
  BY <1>1, CommandDoes
<1>3. LogOk(h)
  BY <1>1, HearTyped, LogAlone
<1> HIDE DEF t
<1>4. t \in MgenState /\ LogOk(t)
  BY <1>2, <1>3 DEF Does, KeepsGiven
<1>5. SettingsOk(t) /\ FlowsOk(t)
  BY <1>1, <1>2, SettingsObeyed, FlowsObeyed
<1> QED
  BY <1>4, <1>5 DEF Obeyed, t

\* Only what the last command returned is changed.
LEMMA AnswerObeyed ==
  ASSUME NEW s, Obeyed(s), NEW b \in BOOLEAN
  PROVE  Obeyed([s EXCEPT !.ok = b])
<1> DEFINE t == [s EXCEPT !.ok = b]
<1>1. /\ t \in MgenState /\ t.value = s.value /\ t.lock = s.lock /\ t.given = s.given
      /\ t.flows = s.flows /\ t.suspended = s.suspended /\ KeepsLog(s, t)
  BY DEF Obeyed, MgenState, KeepsLog
<1> HIDE DEF t
<1>2. SettingsOk(t) /\ FlowsOk(t) /\ LogOk(t)
  BY <1>1, LogAlone DEF Obeyed, SettingsOk, FlowsOk
<1> QED
  BY <1>1, <1>2 DEF Obeyed, t

-------------------------------------------------------------------------------
(* Scripts, and mgen at work.                                              *)

\* The states that agree with what was given.
ObeyedStates == {s \in MgenState : Obeyed(s)}

LEMMA ReadLineObeyed ==
  ASSUME NEW s \in ObeyedStates, NEW line, Complete(line)
  PROVE  Given!ReadLine(s, line) \in ObeyedStates
<1>1. Obeyed(s)
  BY DEF ObeyedStates
<1>2. Obeyed(Given!Command(s, line, FALSE))
  BY <1>1, CommandObeyed
<1>3. Given!ReadLine(s, line) = s \/ Given!ReadLine(s, line) = Given!Command(s, line, FALSE)
  BY DEF Given!ReadLine
<1>4. Obeyed(Given!ReadLine(s, line))
  BY <1>1, <1>2, <1>3
<1> QED
  BY <1>4 DEF ObeyedStates, Obeyed

LEMMA ScriptObeyed ==
  ASSUME NEW s, Obeyed(s), NEW name \in DOMAIN Scripts
  PROVE  Obeyed(Given!Script(s, Scripts[name]))
<1> DEFINE lines == Scripts[name]
           N == Len(lines)
           step(a, n) == IF n = 0 THEN s ELSE Given!ReadLine(a[n - 1], lines[n])
           after == CHOOSE a : a = [n \in 0..N |-> step(a, n)]
           F == [p \in ObeyedStates \X (1..N) |-> Given!ReadLine(p[1], lines[p[2]])]
<1>1. N \in Nat /\ \A n \in 1..N : Complete(lines[n])
  <2>1. lines \in Seq(Given!AllCommands) /\ \A i \in DOMAIN lines : ~Given!Missing(lines[i])
    BY MenuAssumption
  <2>2. N \in Nat /\ DOMAIN lines = 1..N /\ \A i \in 1..N : lines[i] \in Given!AllCommands
    BY <2>1, LenProperties, ElementOfSeq
  <2> QED
    BY <2>1, <2>2 DEF Complete
<1>2. Given!Script(s, lines) = after[N]
  BY DEF Given!Script
<1> HIDE DEF N, lines
<1>3. F \in [ObeyedStates \X (1..N) -> ObeyedStates]
  BY <1>1, ReadLineObeyed
<1>4. \A x \in ObeyedStates, n \in 1..N : F[<<x, n>>] = Given!ReadLine(x, lines[n])
  OBVIOUS
<1> HIDE DEF F
<1>5. s \in ObeyedStates
  BY DEF ObeyedStates, Obeyed
<1>6. PICK g : Made(ObeyedStates, F, s, N, g)
  BY <1>1, <1>3, <1>5, MadeExists
<1>7. g \in [0..N -> ObeyedStates] /\ g[0] = s /\ \A n \in 1..N : g[n] = F[<<g[n - 1], n>>]
  BY <1>6 DEF Made
<1>8. g = [n \in 0..N |-> step(g, n)]
  <2>1. ASSUME NEW n \in 0..N PROVE g[n] = step(g, n)
    <3>1. CASE n = 0
      BY <1>7, <3>1
    <3>2. CASE n # 0
      <4>1. n \in 1..N /\ n - 1 \in 0..N
        BY <1>1, <3>2
      <4>2. g[n - 1] \in ObeyedStates
        BY <1>7, <4>1
      <4> QED
        BY <1>4, <1>7, <3>2, <4>1, <4>2
    <3> QED
      BY <3>1, <3>2
  <2> HIDE DEF step
  <2> QED
    BY <1>7, <2>1
<1>9. after = [n \in 0..N |-> step(after, n)]
  <2> HIDE DEF step
  <2> QED
    BY <1>8
<1> HIDE DEF after
<1>10. \A n \in 0..N : after[n] = step(after, n)
  <2> HIDE DEF step
  <2> QED
    BY <1>9
<1> DEFINE T == {n \in 0..N : ~(after[n] \in ObeyedStates)}
<1>11. SUFFICES ASSUME T # {} PROVE FALSE
  <2>1. N \in 0..N
    BY <1>1
  <2>2. after[N] \in ObeyedStates
    BY <1>11, <2>1
  <2> QED
    BY <1>2, <2>2 DEF ObeyedStates, lines
<1>12. PICK n \in T : \A y \in T : n <= y
  <2>1. T \subseteq Nat
    BY <1>1
  <2> HIDE DEF T
  <2> QED
    BY <1>11, <2>1, LeastOf
<1>13. n \in 0..N /\ ~(after[n] \in ObeyedStates)
  BY <1>12
<1>14. n # 0
  <2>1. 0 \in 0..N
    BY <1>1
  <2> QED
    BY <1>5, <1>10, <1>13, <2>1
<1>15. n - 1 \in 0..N /\ n - 1 < n /\ n \in 1..N
  BY <1>1, <1>13, <1>14
<1>16. after[n - 1] \in ObeyedStates
  BY <1>12, <1>15
<1>17. after[n] = Given!ReadLine(after[n - 1], lines[n])
  BY <1>10, <1>13, <1>14
<1> QED
  BY <1>1, <1>13, <1>15, <1>16, <1>17, ReadLineObeyed

LEMMA OnCommandObeyed ==
  ASSUME NEW s, Obeyed(s), NEW c, Complete(c)
  PROVE  Obeyed(Given!OnCommand(s, c, TRUE))
<1>1. CASE c.name # "INPUT"
  BY <1>1, CommandObeyed DEF Given!OnCommand
<1>2. CASE c.name = "INPUT" /\ c.arg = "bad"
  <2>1. Given!OnCommand(s, c, TRUE) = [s EXCEPT !.ok = FALSE]
    BY <1>2 DEF Given!OnCommand, Given!Refused
  <2> QED
    BY <2>1, AnswerObeyed
<1>3. CASE c.name = "INPUT" /\ c.arg # "bad"
  <2>1. Given!OnCommand(s, c, TRUE) = Given!Script([s EXCEPT !.ok = TRUE], Scripts[c.arg])
    BY <1>3 DEF Given!OnCommand
  <2>2. c.arg \in DOMAIN Scripts
    BY <1>3, CompleteFacts
  <2> QED
    BY <2>1, <2>2, AnswerObeyed, ScriptObeyed
<1> QED
  BY <1>1, <1>2, <1>3

\* mgen is s1, the rest of the command line s4.
CommandsInv == Obeyed(s1) /\ s4 \in Seq(Menu)

LEMMA CommandsBegin ==
  ASSUME Given!Init
  PROVE  CommandsInv
<1> DEFINE s == Given!Initially
<1>1. s1 = s /\ s4 \in Given!SeqOf(Menu, MaxCommands)
  BY DEF Given!Init
<1>2. s4 \in Seq(Menu)
  <2>1. PICK m \in 0..MaxCommands : s4 \in [1..m -> Menu]
    BY <1>1 DEF Given!SeqOf
  <2>2. m \in Nat
    OBVIOUS
  <2> QED
    BY <2>1, <2>2, SeqDef
<1>3. /\ s.value = [n \in Given!Settings |-> "default"]
      /\ s.lock = [n \in Named \cup {"LOG"} |-> FALSE]
      /\ s.logFile = "stdout" /\ s.binary = FALSE /\ s.open = FALSE
      /\ s.contents = [f \in Given!LogFiles |-> {}]
      /\ s.flows = << >> /\ s.queue = << >> /\ s.suspended = {} /\ s.given = << >>
      /\ s.ok = TRUE
  BY DEF Given!Initially, Named
<1>4. s \in MgenState
  <2>1. << >> \in Seq(Nat) /\ << >> \in Seq(Values) /\ << >> \in Seq(Heard)
    BY EmptySeq
  <2>2. s.value \in [Given!Settings -> Values]
    BY <1>3 DEF Values
  <2>3. s = [value |-> s.value, lock |-> s.lock, logFile |-> s.logFile, binary |-> s.binary,
             open |-> s.open, contents |-> s.contents, flows |-> s.flows, queue |-> s.queue,
             suspended |-> s.suspended, ok |-> s.ok, given |-> s.given]
    BY DEF Given!Initially
  <2> HIDE DEF s
  <2> QED
    BY <1>3, <2>1, <2>2, <2>3 DEF MgenState
<1> HIDE DEF s
<1>5. Len(s.given) = 0 /\ Len(s.flows) = 0 /\ DOMAIN s.given = {} /\ 1..0 = {}
  BY <1>3, EmptySeq
<1>6. SettingsOk(s)
  <2>1. ASSUME NEW n \in Named
        PROVE  Given!InForce(s.given, n) = "default" /\ Overridden(s.given, n) = {}
    <3>1. Given!Setting(s.given, n) = {}
      BY <1>5 DEF Given!Setting
    <3> QED
      BY <3>1 DEF Overridden, Given!InForce, Given!LastOf
  <2>2. Named \subseteq Given!Settings
    BY DEF Named, Given!Settings
  <2> QED
    BY <1>3, <2>1, <2>2 DEF SettingsOk
<1>7. LogOk(s)
  BY <1>3 DEF LogOk
<1>8. FlowsOk(s)
  BY <1>3, <1>5 DEF FlowsOk, Distinct, Known, MadeBy
<1> QED
  BY <1>1, <1>2, <1>4, <1>6, <1>7, <1>8 DEF CommandsInv, Obeyed

LEMMA PerformObeyed ==
  ASSUME Obeyed(s1), NEW c \in Menu, Given!Perform(c)
  PROVE  Obeyed(s1')
<1>1. Complete(c)
  BY DEF Complete, Given!AllCommands, Given!Perform
<1> QED
  BY <1>1, OnCommandObeyed DEF Given!Perform

LEMMA RecordObeyed ==
  ASSUME Obeyed(s1), Given!Record
  PROVE  Obeyed(s1')
<1> DEFINE file == s1.logFile
           format == IF s1.binary THEN "binary" ELSE "text"
           kept == [s1.contents EXCEPT ![file] = @ \cup {format}]
           t == [s1 EXCEPT !.contents = kept]
<1>1. file \in Given!LogFiles /\ s1' = t
  BY DEF Given!Record, Obeyed, MgenState
<1>2. s1.contents \in [Given!LogFiles -> SUBSET {"text", "binary"}]
  BY DEF Obeyed, MgenState
<1>3. /\ kept \in [Given!LogFiles -> SUBSET {"text", "binary"}]
      /\ \A f \in Given!LogFiles : kept[f] \subseteq s1.contents[f] \cup {format}
  BY <1>2
<1>4. format = IF s1.binary THEN "binary" ELSE "text"
  OBVIOUS
<1> HIDE DEF kept, format
<1>5. /\ t \in MgenState /\ t.value = s1.value /\ t.lock = s1.lock /\ t.given = s1.given
      /\ t.flows = s1.flows /\ t.suspended = s1.suspended /\ t.contents = kept
      /\ t.open = s1.open /\ t.binary = s1.binary /\ t.logFile = s1.logFile
  BY <1>3 DEF Obeyed, MgenState
<1> HIDE DEF t
<1>6. s1.open
  <2>1. "stdout" \notin Given!LogFiles /\ "none" \notin Given!LogFiles
    BY MenuAssumption DEF Given!LogFiles
  <2>2. s1.open \in BOOLEAN
    BY DEF Obeyed, MgenState
  <2> QED
    BY <1>1, <2>1, <2>2 DEF Obeyed, LogOk
<1>7. LogOk(t)
  BY <1>3, <1>4, <1>5, <1>6 DEF Obeyed, LogOk
<1>8. SettingsOk(t) /\ FlowsOk(t)
  BY <1>5 DEF Obeyed, SettingsOk, FlowsOk
<1> QED
  BY <1>1, <1>5, <1>7, <1>8 DEF Obeyed

LEMMA CommandsStep ==
  ASSUME CommandsInv, Given!Next
  PROVE  CommandsInv'
<1>1. Obeyed(s1) /\ s4 \in Seq(Menu)
  BY DEF CommandsInv
<1>2. CASE Given!Startup
  <2>1. s4 # << >> /\ s4' = Tail(s4)
    BY <1>2 DEF Given!Startup
  <2>2. Head(s4) \in Menu /\ Tail(s4) \in Seq(Menu)
    BY <1>1, <2>1, HeadTailProperties
  <2>3. UNCHANGED s1 \/ Given!Perform(Head(s4))
    BY <1>2 DEF Given!Startup, Given!Name
  <2>4. Obeyed(s1')
    BY <1>1, <2>2, <2>3, PerformObeyed
  <2> QED
    BY <2>1, <2>2, <2>4 DEF CommandsInv
<1>3. CASE Given!Launch \/ Given!GetCmdName
  BY <1>1, <1>3 DEF Given!Launch, Given!GetCmdName, Given!vars, CommandsInv
<1>4. ASSUME NEW c \in Menu, Given!Receive(c) PROVE CommandsInv'
  <2>1. UNCHANGED s4 /\ (UNCHANGED s1 \/ Given!Perform(c))
    BY <1>4 DEF Given!Receive, Given!Name
  <2> QED
    BY <1>1, <2>1, PerformObeyed DEF CommandsInv
<1>5. CASE Given!Record
  <2>1. UNCHANGED s4
    BY <1>5 DEF Given!Record
  <2> QED
    BY <1>1, <1>5, <2>1, RecordObeyed DEF CommandsInv
<1> QED
  BY <1>2, <1>3, <1>4, <1>5 DEF Given!Next

LEMMA CommandsInvariance == MCSpec => [](part = "commands" => CommandsInv)
<1> DEFINE all == <<part, vars, pace, others>>
           I == part = "commands" => CommandsInv
<1>1. MCInit => I
  BY CommandsBegin DEF MCInit, OtherParts
<1>2. I /\ [MCNext]_all => I'
  <2> SUFFICES ASSUME I, [MCNext]_all PROVE I'
    OBVIOUS
  <2>1. CASE part = "commands" /\ Given!Next /\ UNCHANGED part
    BY <2>1, CommandsStep
  <2>2. CASE part # "commands" /\ UNCHANGED part
    BY <2>2
  <2>3. CASE UNCHANGED all
    BY <2>3 DEF CommandsInv, others
  <2> QED
    BY <2>1, <2>2, <2>3 DEF MCNext, Intervals, Scheduling
<1> QED
  BY <1>1, <1>2, PTL DEF MCSpec

\* Mgen::OnCommand, ParseScript and the SetDefault functions: whatever commands come
\* from the command line, from the scripts it names and by remote control, in whatever
\* order, a setting is what was given last by a command that overrides, or else last.
THEOREM CommandsOverride == MCSpec => []Overrides
<1>1. (part = "commands" => CommandsInv) => Overrides
  BY DEF CommandsInv, Obeyed, SettingsOk, Overrides, Given!Overrides, Named
<1> QED
  BY <1>1, CommandsInvariance, PTL

\* OpenLog, SetLogFile and BINARY: no file has both text and records, however logs are
\* opened, closed, written anew and continued, and from wherever the format is chosen.
THEOREM LogsHaveOneFormat == MCSpec => []OneFormat
<1>1. (part = "commands" => CommandsInv) => OneFormat
  <2> SUFFICES ASSUME part = "commands", CommandsInv, NEW f \in Given!LogFiles
               PROVE  Given!Cardinality(s1.contents[f]) < 2
    BY DEF OneFormat, Given!OneFormat
  <2> DEFINE S == s1.contents[f]
             format == IF s1.binary THEN "binary" ELSE "text"
  <2>1. S \subseteq {format}
    BY DEF CommandsInv, Obeyed, LogOk
  <2> HIDE DEF S, format
  <2>2. S = {} \/ S = {format}
    BY <2>1
  <2>3. Cardinality(S) = 0 \/ Cardinality(S) = 1
    BY <2>2, FS_EmptySet, FS_Singleton
  <2>4. Cardinality(S) < 2
    BY <2>3
  <2> QED
    BY <2>4 DEF S, Given!Cardinality, Cardinality
<1> QED
  BY <1>1, CommandsInvariance, PTL

\* Mgen::OnCommand of SUSPEND, RESUME and RESET: for any lists of ranges and any flows,
\* made in any order, a flow is suspended exactly when the last list that came to be
\* looked at and names it said so, although the walk along flow_list stops early.
THEOREM FlowsToldSo == MCSpec => []SuspendedAsTold
<1>1. (part = "commands" => CommandsInv) => SuspendedAsTold
  <2> SUFFICES ASSUME part = "commands", CommandsInv, NEW f \in Given!Range(s1.flows)
               PROVE  f \in s1.suspended <=> LastTold(s1.given, f)
    BY DEF SuspendedAsTold, Given!SuspendedAsTold, LastTold
  <2>1. s1.flows \in Seq(Nat) /\ FlowsOk(s1)
    BY DEF CommandsInv, Obeyed, MgenState
  <2>2. Known(s1.flows, f)
    BY <2>1, LenProperties DEF Given!Range, Known
  <2> QED
    BY <2>1, <2>2 DEF FlowsOk
<1> QED
  BY <1>1, CommandsInvariance, PTL

\* In an EventLine the line is s1, the options not read yet s2, the event s3, the
\* mask s4, the result s5.
EventLabels == DOMAIN Line!NewEvent

\* Where the first n options have l, and where they say what to do with f.
NamedTo(l, n) == {i \in 1..n : s1.options[i].label = l}
Lists(i, f) ==
  LET o == s1.options[i]
  IN o.label \in DOMAIN Line!Status /\ f \in o.value[1]..o.value[2] /\ o.value[2] <= MAX_FLOW
ListingTo(f, n) == {i \in 1..n : Lists(i, f)}

\* What an event e has of the first n options.
PlainOf(e, n) ==
  \A l \in Line!Plain :
    e[l] = IF NamedTo(l, n) = {} THEN Line!Unset ELSE s1.options[Line!Max(NamedTo(l, n))].value
ListsOf(e, n) ==
  \A f \in 1..MAX_FLOW :
    LET S == ListingTo(f, n)
        status == Line!Status[s1.options[Line!Max(S)].label]
    IN /\ f \in e.low <=> S # {} /\ status % 2 = 1
       /\ f \in e.high <=> S # {} /\ status >= 2

SizesOf(e, n) ==
  NamedTo("PATTERN", n) # {} => Line!SizesValid(e["PATTERN"], e["PROTOCOL"])

Reads(e, n) ==
  /\ DOMAIN e = EventLabels /\ e = [l \in DOMAIN e |-> e[l]]
  /\ PlainOf(e, n) /\ ListsOf(e, n)
  /\ s1.type = "ON" => SizesOf(e, n)

\* n options were read.
LineAt(n) ==
  /\ Len(s2) = Len(s1.options) - n
  /\ \A i \in 1..Len(s2) : s2[i] = s1.options[n + i]
  /\ s5 # "refused" => Reads(s3, n) /\ s4 = {s1.options[i].label : i \in 1..n}
  /\ s5 = "accepted" =>
       n = Len(s1.options) /\ (s1.type = "ON" => Line!Required \subseteq s4)

LineInv ==
  /\ s1 \in EventLines
  /\ s2 \in Seq(ToSet(s1.options))
  /\ \E n \in 0..Len(s1.options) : LineAt(n)

LEMMA LineFacts ==
  ASSUME s1 \in EventLines
  PROVE  /\ s1.options \in Seq(ToSet(s1.options))
         /\ Len(s1.options) \in Nat
         /\ DOMAIN s1.options = 1..Len(s1.options)
         /\ \A i \in 1..Len(s1.options) :
              s1.options[i].label \in {"PATTERN"} \cup DOMAIN Line!Status =>
                s1.options[i].value \in Int \X Int
         /\ s1.type = "ON" =>
              \A i, j \in 1..Len(s1.options) :
                (s1.options[i].label = "PROTOCOL" /\ s1.options[j].label = "PATTERN") => i < j
<1>1. s1.options \in Seq(ToSet(s1.options))
  BY LineAssumption
<1>2. Len(s1.options) \in Nat /\ DOMAIN s1.options = 1..Len(s1.options)
  BY <1>1, LenProperties
<1> QED
  BY <1>1, <1>2, LineAssumption DEF ProtocolFirst

\* What the labels are.
LEMMA LabelFacts ==
  /\ Line!Plain \subseteq EventLabels /\ Line!Switches \subseteq EventLabels
  /\ {"PATTERN", "SEQUENCE", "COUNT", "RETRY", "keepAlive", "low", "high"} \subseteq EventLabels
  /\ Line!Plain \cap {"PATTERN", "SEQUENCE", "COUNT", "RETRY", "keepAlive", "low", "high"} = {}
  /\ Line!Switches \cap {"PATTERN", "SEQUENCE", "COUNT", "RETRY", "keepAlive", "low", "high"} = {}
  /\ Line!Plain \cap Line!Switches = {}
  /\ DOMAIN Line!Status \cap (Line!Plain \cup Line!Switches) = {}
  /\ DOMAIN Line!Status \cap {"PATTERN", "SEQUENCE", "COUNT", "RETRY"} = {}
  /\ "REPORT" \in Line!Switches
<1> USE DEF EventLabels, Line!NewEvent, Line!Plain, Line!Switches, Line!Status
<1>1. DOMAIN Line!Status = {"SUSPEND", "RESUME", "RESET"}
  OBVIOUS
<1>2. EventLabels = Line!Plain \cup Line!Switches
                    \cup {"PATTERN", "SEQUENCE", "COUNT", "RETRY", "keepAlive", "low", "high"}
  OBVIOUS
<1> QED
  BY <1>1, <1>2

\* An event in which only what is in S has another value.
Alters(e, S) ==
  /\ DOMAIN e = EventLabels /\ e = [l \in DOMAIN e |-> e[l]]
  /\ \A l \in EventLabels \ S : e[l] = s3[l]

\* What an option does to the event.
LEMMA OptionDoes ==
  ASSUME DOMAIN s3 = EventLabels, s3 = [l \in DOMAIN s3 |-> s3[l]],
         NEW o, Line!Valid(o)
  PROVE  LET e == Line!With(o)
             range == o.value[1]..o.value[2]
             status == Line!Status[o.label]
         IN /\ DOMAIN e = EventLabels /\ e = [l \in DOMAIN e |-> e[l]]
            /\ \A l \in Line!Plain : e[l] = IF o.label = l THEN o.value ELSE s3[l]
            /\ e["PATTERN"] = IF o.label = "PATTERN" THEN Line!Sizes(o) ELSE s3["PATTERN"]
            /\ e.low = IF o.label \in DOMAIN Line!Status
                       THEN Line!SetBits(s3.low, range, status % 2 = 1) ELSE s3.low
            /\ e.high = IF o.label \in DOMAIN Line!Status
                        THEN Line!SetBits(s3.high, range, status >= 2) ELSE s3.high
<1> DEFINE e == Line!With(o)
           range == o.value[1]..o.value[2]
           status == Line!Status[o.label]
           Remaining == {"SEQUENCE", "COUNT", "RETRY", "keepAlive"} \cup Line!Switches
<1> HIDE DEF range, status
<1>1. CASE o.label \in Line!Plain
  <2>1. e = [s3 EXCEPT ![o.label] = o.value]
    BY <1>1, LabelFacts DEF Line!With
  <2> HIDE DEF e
  <2>2. Alters(e, {o.label}) /\ e[o.label] = o.value
    BY <1>1, <2>1, LabelFacts DEF Alters
  <2> QED
    BY <1>1, <2>2, LabelFacts DEF Alters, e
<1>2. CASE o.label = "PATTERN"
  <2>1. e = [s3 EXCEPT !["PATTERN"] = Line!Sizes(o)]
    BY <1>2, LabelFacts DEF Line!With
  <2> HIDE DEF e
  <2>2. Alters(e, {"PATTERN"}) /\ e["PATTERN"] = Line!Sizes(o)
    BY <2>1, LabelFacts DEF Alters
  <2> QED
    BY <1>2, <2>2, LabelFacts DEF Alters, e
<1>3. CASE o.label \notin Line!Plain \cup {"PATTERN"} \cup DOMAIN Line!Status
  <2>1. Alters(e, Remaining)
    <3>1. CASE o.label = "SEQUENCE"
      <4>1. e = [s3 EXCEPT !["SEQUENCE"] = o.value % SequenceModulus]
        BY <3>1, LabelFacts DEF Line!With
      <4> QED
        BY <4>1, LabelFacts DEF Alters
    <3>2. CASE o.label = "COUNT"
      <4>1. e = Line!Count(o)
        BY <3>2, LabelFacts DEF Line!With
      <4> DEFINE keep == s3.keepAlive /\ o.value[2] = "none"
      <4>2. e = [s3 EXCEPT !["COUNT"] = o.value[1], !.keepAlive = keep]
        BY <4>1 DEF Line!Count
      <4> HIDE DEF keep, e
      <4> QED
        BY <4>2, LabelFacts DEF Alters
    <3>3. CASE o.label = "RETRY"
      <4>1. e = Line!Retry(o)
        BY <3>3, LabelFacts DEF Line!With
      <4> QED
        BY <4>1, LabelFacts DEF Alters, Line!Retry
    <3>4. CASE o.label \in Line!Switches
      <4>1. e = Line!Switch(o)
        BY <3>4, LabelFacts DEF Line!With
      <4> QED
        BY <3>4, <4>1, LabelFacts DEF Alters, Line!Switch
    <3>5. CASE o.label \notin {"SEQUENCE", "COUNT", "RETRY"} \cup Line!Switches
      <4>1. e = s3
        BY <1>3, <3>5, LabelFacts DEF Line!With
      <4> QED
        BY <4>1 DEF Alters
    <3> QED
      BY <3>1, <3>2, <3>3, <3>4, <3>5
  <2> HIDE DEF e
  <2>2. /\ \A l \in Line!Plain : e[l] = s3[l] /\ o.label # l
        /\ e["PATTERN"] = s3["PATTERN"] /\ e.low = s3.low /\ e.high = s3.high
    BY <1>3, <2>1, LabelFacts DEF Alters
  <2> QED
    BY <1>3, <2>1, <2>2 DEF Alters, e
<1>4. CASE o.label \in DOMAIN Line!Status
  <2>1. e = Line!SetRange(range, status)
    BY <1>4, LabelFacts DEF Line!With, range, status
  <2> HIDE DEF e
  <2>2. /\ Alters(e, {"low", "high"})
        /\ e.low = Line!SetBits(s3.low, range, status % 2 = 1)
        /\ e.high = Line!SetBits(s3.high, range, status >= 2)
    BY <2>1, LabelFacts DEF Line!SetRange, Alters
  <2> QED
    BY <1>4, <2>2, LabelFacts DEF Alters, e, range, status
<1> QED
  BY <1>1, <1>2, <1>3, <1>4

LEMMA LastPlace ==
  ASSUME NEW L \in Nat, NEW S, S \subseteq 1..L, S # {}
  PROVE  /\ Line!Max(S) \in S /\ Drecs!Max(S) = Line!Max(S)
         /\ L \in S => Line!Max(S) = L
<1>1. Given!Max(S) = Line!Max(S) /\ Drecs!Max(S) = Line!Max(S)
  BY DEF Given!Max, Line!Max, Drecs!Max
<1> QED
  BY <1>1, GreatestPlace

LEMMA PlacesNext ==
  ASSUME NEW n \in Nat
  PROVE  /\ \A l : /\ NamedTo(l, n) \subseteq 1..n
                   /\ NamedTo(l, n + 1) = NamedTo(l, n) \cup
                        (IF s1.options[n + 1].label = l THEN {n + 1} ELSE {})
         /\ \A f : /\ ListingTo(f, n) \subseteq 1..n
                   /\ ListingTo(f, n + 1) = ListingTo(f, n) \cup
                        (IF Lists(n + 1, f) THEN {n + 1} ELSE {})
<1>1. 1..(n + 1) = 1..n \cup {n + 1}
  OBVIOUS
<1> QED
  BY <1>1 DEF NamedTo, ListingTo

LEMMA PlainNext ==
  ASSUME NEW n \in Nat, PlainOf(s3, n), NEW e, NEW o, o = s1.options[n + 1],
         \A l \in Line!Plain : e[l] = IF o.label = l THEN o.value ELSE s3[l]
  PROVE  PlainOf(e, n + 1)
<1> SUFFICES ASSUME NEW l \in Line!Plain
             PROVE  e[l] = IF NamedTo(l, n + 1) = {} THEN Line!Unset
                           ELSE s1.options[Line!Max(NamedTo(l, n + 1))].value
  BY DEF PlainOf
<1> DEFINE S == NamedTo(l, n)
           U == NamedTo(l, n + 1)
<1>1. U = S \cup (IF o.label = l THEN {n + 1} ELSE {}) /\ S \subseteq 1..n
  BY PlacesNext
<1>2. s3[l] = IF S = {} THEN Line!Unset ELSE s1.options[Line!Max(S)].value
  BY DEF PlainOf
<1>3. e[l] = IF o.label = l THEN o.value ELSE s3[l]
  OBVIOUS
<1> HIDE DEF S, U
<1>4. CASE o.label = l
  <2>1. n + 1 \in U /\ U \subseteq 1..(n + 1) /\ U # {} /\ n + 1 \in Nat
    BY <1>1, <1>4
  <2>2. Line!Max(U) = n + 1
    BY <2>1, LastPlace
  <2> QED
    BY <1>3, <1>4, <2>1, <2>2 DEF U
<1>5. CASE o.label # l
  BY <1>1, <1>2, <1>3, <1>5 DEF U
<1> QED
  BY <1>4, <1>5

LEMMA StatusFacts ==
  /\ DOMAIN Line!Status = {"SUSPEND", "RESUME", "RESET"}
  /\ \A x \in DOMAIN Line!Status : Line!Status[x] \in 1..3
  BY DEF Line!Status

\* The bits of a flow are those of the last list that names it.
LEMMA ListsNext ==
  ASSUME NEW n \in Nat, ListsOf(s3, n), NEW o, o = s1.options[n + 1], Line!Valid(o),
         MAX_FLOW \in Nat,
         o.label \in DOMAIN Line!Status => o.value \in Int \X Int, NEW e,
         e.low = IF o.label \in DOMAIN Line!Status
                 THEN Line!SetBits(s3.low, o.value[1]..o.value[2], Line!Status[o.label] % 2 = 1)
                 ELSE s3.low,
         e.high = IF o.label \in DOMAIN Line!Status
                  THEN Line!SetBits(s3.high, o.value[1]..o.value[2], Line!Status[o.label] >= 2)
                  ELSE s3.high
  PROVE  ListsOf(e, n + 1)
<1> SUFFICES ASSUME NEW f \in 1..MAX_FLOW
             PROVE  LET U == ListingTo(f, n + 1)
                        st == Line!Status[s1.options[Line!Max(U)].label]
                    IN /\ f \in e.low <=> U # {} /\ st % 2 = 1
                       /\ f \in e.high <=> U # {} /\ st >= 2
  BY DEF ListsOf
<1> DEFINE S == ListingTo(f, n)
           U == ListingTo(f, n + 1)
           st(T) == Line!Status[s1.options[Line!Max(T)].label]
<1>1. U = S \cup (IF Lists(n + 1, f) THEN {n + 1} ELSE {}) /\ S \subseteq 1..n
  BY PlacesNext
<1>2. /\ f \in s3.low <=> S # {} /\ st(S) % 2 = 1
      /\ f \in s3.high <=> S # {} /\ st(S) >= 2
  BY DEF ListsOf
<1>3. Lists(n + 1, f) <=> /\ o.label \in DOMAIN Line!Status
                          /\ f \in o.value[1]..o.value[2] /\ o.value[2] <= MAX_FLOW
  BY DEF Lists
<1> HIDE DEF S, U
<1>4. CASE Lists(n + 1, f)
  <2>1. n + 1 \in U /\ U \subseteq 1..(n + 1) /\ U # {} /\ n + 1 \in Nat
    BY <1>1, <1>4
  <2>2. Line!Max(U) = n + 1
    BY <2>1, LastPlace
  <2>3. st(U) = Line!Status[o.label]
    BY <2>2
  <2>4. o.value[1]..o.value[2] \subseteq 1..MAX_FLOW
    <3>1. o.value[1] > 0 /\ o.value[1] \in Int /\ o.value[2] \in Int /\ o.value[2] <= MAX_FLOW
      BY <1>3, <1>4 DEF Line!Valid, Line!ListValid
    <3> QED
      BY <3>1
  <2>5. /\ f \in e.low <=> Line!Status[o.label] % 2 = 1
        /\ f \in e.high <=> Line!Status[o.label] >= 2
    BY <1>3, <1>4, <2>4 DEF Line!SetBits
  <2> QED
    BY <2>1, <2>3, <2>5 DEF U
<1>5. CASE ~Lists(n + 1, f)
  <2>1. (f \in e.low <=> f \in s3.low) /\ (f \in e.high <=> f \in s3.high)
    <3>1. CASE o.label \notin DOMAIN Line!Status
      BY <3>1
    <3>2. CASE o.label \in DOMAIN Line!Status /\ f \notin o.value[1]..o.value[2]
      BY <3>2 DEF Line!SetBits
    <3>3. CASE o.label \in DOMAIN Line!Status /\ ~(o.value[2] <= MAX_FLOW)
      <4>1. o.value[1] \in Int /\ o.value[2] \in Int /\ o.value[2] >= o.value[1]
        BY <3>3 DEF Line!Valid, Line!ListValid
      <4>2. o.value[2] \in o.value[1]..o.value[2] /\ o.value[2] \notin 1..MAX_FLOW
        BY <3>3, <4>1
      <4> QED
        BY <4>2 DEF Line!SetBits
    <3> QED
      BY <1>3, <1>5, <3>1, <3>2, <3>3
  <2>2. U = S
    BY <1>1, <1>5
  <2> QED
    BY <1>2, <2>1, <2>2 DEF U
<1> QED
  BY <1>4, <1>5

\* A pattern is read after the protocol.
LEMMA SizesNext ==
  ASSUME s1 \in EventLines, s1.type = "ON", NEW n \in Nat, n + 1 <= Len(s1.options),
         SizesOf(s3, n), NEW o, o = s1.options[n + 1], Line!Valid(o), NEW e,
         \A l \in Line!Plain : e[l] = IF o.label = l THEN o.value ELSE s3[l],
         e["PATTERN"] = IF o.label = "PATTERN" THEN Line!Sizes(o) ELSE s3["PATTERN"]
  PROVE  SizesOf(e, n + 1)
<1> SUFFICES ASSUME NamedTo("PATTERN", n + 1) # {}
             PROVE  Line!SizesValid(e["PATTERN"], e["PROTOCOL"])
  BY DEF SizesOf
<1>1. "PROTOCOL" \in Line!Plain
  BY DEF Line!Plain
<1>2. CASE o.label = "PATTERN"
  <2>1. e["PROTOCOL"] = s3["PROTOCOL"] /\ e["PATTERN"] = Line!Sizes(o)
    BY <1>1, <1>2
  <2> QED
    BY <1>2, <2>1 DEF Line!Valid
<1>3. CASE o.label # "PATTERN"
  <2>1. NamedTo("PATTERN", n) # {}
    BY <1>3, PlacesNext
  <2>2. Line!SizesValid(s3["PATTERN"], s3["PROTOCOL"])
    BY <2>1 DEF SizesOf
  <2>3. o.label # "PROTOCOL"
    <3>1. PICK j \in 1..n : s1.options[j].label = "PATTERN"
      BY <2>1 DEF NamedTo
    <3>2. j \in 1..Len(s1.options) /\ n + 1 \in 1..Len(s1.options) /\ ~(n + 1 < j)
      BY LineFacts
    <3> QED
      BY <3>1, <3>2, LineFacts
  <2> QED
    BY <1>1, <1>3, <2>2, <2>3
<1> QED
  BY <1>2, <1>3

LEMMA LineBegins ==
  ASSUME Line!Init
  PROVE  LineInv
<1>1. /\ s1 \in EventLines /\ s2 = s1.options /\ s3 = Line!NewEvent /\ s4 = {}
      /\ s5 = "reading"
  BY DEF Line!Init
<1>2. 1..0 = {} /\ 0 \in 0..Len(s1.options)
  BY <1>1, LineFacts
<1>3. PlainOf(s3, 0) /\ ListsOf(s3, 0) /\ SizesOf(s3, 0)
  <2>1. /\ \A l : NamedTo(l, 0) = {}
        /\ \A f : ListingTo(f, 0) = {}
    BY <1>2 DEF NamedTo, ListingTo
  <2>2. \A l \in Line!Plain : s3[l] = Line!Unset
    <3>1. SUFFICES ASSUME NEW l \in Line!Plain PROVE Line!NewEvent[l] = Line!Unset
      BY <1>1
    <3>2. l \notin {"RETRY", "keepAlive", "low", "high"}
      BY LabelFacts
    <3> QED
      BY <3>2 DEF Line!NewEvent
  <2>3. s3.low = {} /\ s3.high = {}
    BY <1>1 DEF Line!NewEvent
  <2> QED
    BY <2>1, <2>2, <2>3 DEF PlainOf, ListsOf, SizesOf
<1>4. DOMAIN s3 = EventLabels /\ s3 = [l \in DOMAIN s3 |-> s3[l]]
  BY <1>1 DEF EventLabels, Line!NewEvent
<1>5. LineAt(0)
  <2>1. Len(s2) = Len(s1.options) - 0 /\ \A i \in 1..Len(s2) : s2[i] = s1.options[0 + i]
    BY <1>1, LineFacts
  <2> QED
    BY <1>1, <1>2, <1>3, <1>4, <2>1 DEF LineAt, Reads
<1> QED
  BY <1>1, <1>2, <1>5, LineFacts DEF LineInv

LEMMA LineStep ==
  ASSUME LineInv, Line!Next
  PROVE  LineInv'
<1> DEFINE Options == ToSet(s1.options)
<1>1. s1 \in EventLines /\ s2 \in Seq(Options)
  BY DEF LineInv
<1>2. PICK n \in 0..Len(s1.options) : LineAt(n)
  BY DEF LineInv
<1>3. Len(s1.options) \in Nat /\ n \in Nat /\ Len(s2) = Len(s1.options) - n
  BY <1>1, <1>2, LineFacts DEF LineAt
<1>4. s1' = s1 /\ s5 = "reading"
  BY DEF Line!Next, Line!ReadOption, Line!End
<1>5. Reads(s3, n) /\ s4 = {s1.options[i].label : i \in 1..n}
  BY <1>2, <1>4 DEF LineAt
<1>6. CASE Line!ReadOption
  <2> DEFINE o == Head(s2)
  <2>1. s2 # << >> /\ s2' = Tail(s2)
    BY <1>6 DEF Line!ReadOption
  <2>2. /\ o = s2[1] /\ s2' \in Seq(Options) /\ Len(s2') = Len(s2) - 1 /\ Len(s2) >= 1
        /\ \A i \in 1..Len(s2') : s2'[i] = s2[i + 1]
    BY <1>1, <2>1, HeadTailProperties, EmptySeq, LenProperties
  <2>3. n + 1 \in 0..Len(s1.options) /\ Len(s2') = Len(s1.options) - (n + 1)
    BY <1>3, <2>2
  <2>4. \A i \in 1..Len(s2') : s2'[i] = s1.options[(n + 1) + i]
    <3> SUFFICES ASSUME NEW i \in 1..Len(s2') PROVE s2'[i] = s1.options[(n + 1) + i]
      OBVIOUS
    <3>1. i + 1 \in 1..Len(s2) /\ n + (i + 1) = (n + 1) + i
      <4>1. Len(s2) \in Int /\ Len(s2') = Len(s2) - 1 /\ n \in Int
        BY <1>3, <2>2
      <4> QED
        BY <4>1
    <3>2. s2[i + 1] = s1.options[n + (i + 1)]
      BY <1>2, <3>1 DEF LineAt
    <3> QED
      BY <2>2, <3>1, <3>2
  <2>5. o = s1.options[n + 1]
    <3>1. 1 \in 1..Len(s2)
      BY <1>3, <2>2
    <3> QED
      BY <1>2, <2>2, <3>1 DEF LineAt
  <2>6. CASE Line!Valid(o)
    <3> DEFINE e == Line!With(o)
    <3>1. s3' = e /\ s4' = s4 \cup {o.label} /\ s5' = s5
      BY <1>6, <2>6 DEF Line!ReadOption
    <3>2. DOMAIN s3 = EventLabels /\ s3 = [l \in DOMAIN s3 |-> s3[l]]
      BY <1>5 DEF Reads
    <3>3. /\ DOMAIN e = EventLabels /\ e = [l \in DOMAIN e |-> e[l]]
          /\ \A l \in Line!Plain : e[l] = IF o.label = l THEN o.value ELSE s3[l]
          /\ e["PATTERN"] = IF o.label = "PATTERN" THEN Line!Sizes(o) ELSE s3["PATTERN"]
          /\ e.low = IF o.label \in DOMAIN Line!Status
                     THEN Line!SetBits(s3.low, o.value[1]..o.value[2], Line!Status[o.label] % 2 = 1)
                     ELSE s3.low
          /\ e.high = IF o.label \in DOMAIN Line!Status
                      THEN Line!SetBits(s3.high, o.value[1]..o.value[2], Line!Status[o.label] >= 2)
                      ELSE s3.high
      BY <2>6, <3>2, OptionDoes
    <3>4. MAX_FLOW \in Nat /\ (o.label \in DOMAIN Line!Status => o.value \in Int \X Int)
      <4>1. n + 1 \in 1..Len(s1.options)
        BY <1>3, <2>3
      <4> QED
        BY <1>1, <2>5, <4>1, LineFacts, LineAssumption
    <3> HIDE DEF e, o
    <3>5. PlainOf(e, n + 1)
      BY <1>3, <1>5, <2>5, <3>3, PlainNext DEF Reads
    <3>6. ListsOf(e, n + 1)
      BY <1>3, <1>5, <2>5, <2>6, <3>3, <3>4, ListsNext DEF Reads
    <3>7. s1.type = "ON" => SizesOf(e, n + 1)
      BY <1>1, <1>3, <1>5, <2>3, <2>5, <2>6, <3>3, SizesNext, SMTT(30) DEF Reads
    <3>8. Reads(e, n + 1)
      BY <3>3, <3>5, <3>6, <3>7 DEF Reads
    <3>9. s4' = {s1.options[i].label : i \in 1..(n + 1)}
      <4>1. 1..(n + 1) = 1..n \cup {n + 1}
        BY <1>3
      <4> QED
        BY <1>5, <2>5, <3>1, <4>1
    <3>10. Reads(s3, n + 1)'
      BY <1>4, <3>1, <3>8
          DEF Reads, PlainOf, ListsOf, SizesOf, NamedTo, ListingTo, Lists
    <3>11. LineAt(n + 1)'
      BY <1>4, <2>3, <2>4, <3>1, <3>9, <3>10 DEF LineAt
    <3> QED
      BY <1>1, <1>4, <2>2, <2>3, <3>11 DEF LineInv
  <2>7. CASE ~Line!Valid(o)
    <3>1. s5' = "refused" /\ UNCHANGED <<s3, s4>>
      BY <1>6, <2>7 DEF Line!ReadOption
    <3>2. LineAt(n + 1)'
      BY <1>4, <2>3, <2>4, <3>1 DEF LineAt
    <3> QED
      BY <1>1, <1>4, <2>2, <2>3, <3>2 DEF LineInv
  <2> QED
    BY <2>6, <2>7
<1>7. CASE Line!End
  <2>1. /\ s2 = << >> /\ UNCHANGED <<s2, s3, s4>>
        /\ s5' = "refused" \/ (s5' = "accepted" /\ (s1.type = "ON" => Line!Required \subseteq s4))
    BY <1>7 DEF Line!End
  <2>2. n = Len(s1.options)
    BY <1>3, <2>1, EmptySeq
  <2>3. Reads(s3, n)'
    BY <1>4, <1>5, <2>1 DEF Reads, PlainOf, ListsOf, SizesOf, NamedTo, ListingTo, Lists
  <2>4. LineAt(n)'
    BY <1>2, <1>4, <1>5, <2>1, <2>2, <2>3 DEF LineAt
  <2> QED
    BY <1>1, <1>2, <1>4, <2>1, <2>4 DEF LineInv
<1> QED
  BY <1>6, <1>7 DEF Line!Next

LEMMA LineMeans ==
  ASSUME LineInv
  PROVE  Line!LastCounts /\ Line!SizesCarried
<1> SUFFICES ASSUME s5 = "accepted" PROVE Line!LastCounts /\ Line!SizesCarried
  BY DEF Line!LastCounts, Line!SizesCarried
<1> DEFINE L == Len(s1.options)
<1>1. /\ s1 \in EventLines /\ Reads(s3, L) /\ s4 = {s1.options[i].label : i \in 1..L}
      /\ s1.type = "ON" => Line!Required \subseteq s4
  BY DEF LineInv, LineAt
<1>2. DOMAIN s1.options = 1..L /\ L \in Nat
  BY <1>1, LineFacts
<1>3. /\ \A l : Line!Named(l) = NamedTo(l, L)
      /\ \A f : Line!Listing(f) = ListingTo(f, L)
  BY <1>2 DEF Line!Named, Line!Listing, NamedTo, ListingTo, Lists
<1>4. /\ \A l : NamedTo(l, L) \subseteq 1..L
      /\ \A f : ListingTo(f, L) \subseteq 1..L
  BY DEF NamedTo, ListingTo
<1>5. ASSUME NEW l \in Line!Plain
      PROVE  LET last == Line!LastOf(Line!Named(l))
             IN s3[l] = IF last = 0 THEN Line!Unset ELSE s1.options[last].value
  <2> DEFINE S == NamedTo(l, L)
  <2>1. s3[l] = IF S = {} THEN Line!Unset ELSE s1.options[Line!Max(S)].value
    BY <1>1 DEF Reads, PlainOf
  <2>2. S # {} => Line!Max(S) \in 1..L
    BY <1>2, <1>4, LastPlace
  <2> HIDE DEF S
  <2>3. Line!LastOf(S) = 0 <=> S = {}
    BY <2>2 DEF Line!LastOf
  <2> QED
    BY <1>3, <2>1, <2>3 DEF Line!LastOf, S
<1>6. ASSUME NEW f \in 1..MAX_FLOW
      PROVE  LET last == Line!LastOf(Line!Listing(f))
             IN Line!Told(f) = IF last = 0 THEN 0 ELSE Line!Status[s1.options[last].label]
  <2> DEFINE S == ListingTo(f, L)
             st == Line!Status[s1.options[Line!Max(S)].label]
  <2>1. /\ f \in s3.low <=> S # {} /\ st % 2 = 1
        /\ f \in s3.high <=> S # {} /\ st >= 2
    BY <1>1 DEF Reads, ListsOf
  <2>2. S # {} => Line!Max(S) \in 1..L /\ st \in 1..3
    <3>1. S # {} => Line!Max(S) \in S
      BY <1>2, <1>4, LastPlace
    <3>2. \A i \in S : i \in 1..L /\ Line!Status[s1.options[i].label] \in 1..3
      BY StatusFacts DEF ListingTo, Lists
    <3> QED
      BY <3>1, <3>2
  <2> HIDE DEF S, st
  <2>3. Line!LastOf(S) = 0 <=> S = {}
    BY <2>2 DEF Line!LastOf
  <2>4. Line!Told(f) = IF S = {} THEN 0 ELSE st
    <3>1. S # {} => st = 1 \/ st = 2 \/ st = 3
      BY <2>2
    <3>2. 1 % 2 = 1 /\ 2 % 2 = 0 /\ 3 % 2 = 1
      OBVIOUS
    <3>3. CASE S = {}
      BY <2>1, <3>3 DEF Line!Told
    <3>4. CASE S # {} /\ st = 1
      BY <2>1, <3>2, <3>4 DEF Line!Told
    <3>5. CASE S # {} /\ st = 2
      BY <2>1, <3>2, <3>5 DEF Line!Told
    <3>6. CASE S # {} /\ st = 3
      BY <2>1, <3>2, <3>6 DEF Line!Told
    <3> QED
      BY <3>1, <3>3, <3>4, <3>5, <3>6
  <2> QED
    BY <1>3, <2>3, <2>4 DEF Line!LastOf, S, st
<1>7. ASSUME s1.type = "ON"
      PROVE  LET s == s3["PATTERN"]
             IN IF s3["PROTOCOL"] = "UDP" THEN MIN_SIZE <= s[1] /\ s[2] <= MAX_SIZE
                ELSE MIN_FRAG_SIZE <= s[1]
  <2>1. "PATTERN" \in s4
    BY <1>1, <1>7 DEF Line!Required
  <2>2. NamedTo("PATTERN", L) # {}
    BY <1>1, <2>1 DEF NamedTo
  <2>3. Line!SizesValid(s3["PATTERN"], s3["PROTOCOL"])
    BY <1>1, <1>7, <2>2 DEF Reads, SizesOf
  <2> QED
    BY <2>3 DEF Line!SizesValid
<1> QED
  BY <1>5, <1>6, <1>7 DEF Line!LastCounts, Line!SizesCarried
(***************************************************************************)
(* The ports of a LISTEN, IGNORE, JOIN or LEAVE.  In a DrecLine the line is*)
(* s1, the options not read yet s2, the event s3, what is left of a list   *)
(* s4, the array s5, the room in it s6, the range being written s7 to s8,  *)
(* the result s9.                                                          *)
(***************************************************************************)
PortLists == Seq((0..(PortModulus - 2)) \X (0..(PortModulus - 2)))

LEMMA RangeFacts ==
  ASSUME NEW low \in Nat, NEW top \in Int, top >= low - 1
  PROVE  /\ Drecs!PortRange(low, top) \in Seq(Int)
         /\ Append(Drecs!PortRange(low, top), top + 1) = Drecs!PortRange(low, top + 1)
<1> DEFINE r == Drecs!PortRange(low, top)
           u == Drecs!PortRange(low, top + 1)
           m == top - low + 1
<1>1. m \in Nat /\ m + 1 \in Nat /\ (top + 1) - low + 1 = m + 1
  OBVIOUS
<1>2. r \in [1..m -> Int] /\ u \in [1..(m + 1) -> Int]
  BY <1>1 DEF Drecs!PortRange
<1>3. r \in Seq(Int) /\ u \in Seq(Int)
  BY <1>1, <1>2, SeqDef
<1>4. Len(r) = m /\ Len(u) = m + 1
  BY <1>1, <1>2, <1>3, LenProperties
<1>5. /\ \A k \in 1..m : r[k] = low + k - 1
      /\ \A k \in 1..(m + 1) : u[k] = low + k - 1
  BY <1>1 DEF Drecs!PortRange
<1>6. low + (m + 1) - 1 = top + 1
  OBVIOUS
<1> HIDE DEF r, u, m
<1>7. /\ Append(r, top + 1) \in Seq(Int) /\ Len(Append(r, top + 1)) = m + 1
      /\ \A k \in 1..m : Append(r, top + 1)[k] = r[k]
      /\ Append(r, top + 1)[m + 1] = top + 1
  BY <1>3, <1>4, AppendProperties
<1>8. \A k \in 1..(m + 1) : Append(r, top + 1)[k] = u[k]
  <2>1. \A k \in 1..(m + 1) : k \in 1..m \/ k = m + 1
    BY <1>1
  <2> QED
    BY <1>1, <1>5, <1>6, <1>7, <2>1
<1>9. Append(r, top + 1) = u
  BY <1>3, <1>4, <1>7, <1>8, SeqEqual
<1> QED
  BY <1>3, <1>9 DEF r, u

\* The list written out, item by item.
LEMMA PortsToFacts ==
  ASSUME NEW l \in PortLists
  PROVE  /\ Drecs!PortsTo(l, 0) = << >>
         /\ \A n \in 0..Len(l) : Drecs!PortsTo(l, n) \in Seq(Int)
         /\ \A n \in 1..Len(l) :
              Drecs!PortsTo(l, n) =
                Drecs!PortsTo(l, n - 1) \o Drecs!PortRange(l[n][1], l[n][2])
<1> DEFINE N == Len(l)
           D == Seq(Int)
           R(i) == Drecs!PortRange(l[i][1], l[i][2])
           F == [p \in D \X (1..N) |-> p[1] \o R(p[2])]
           step(g, i) == IF i = 0 THEN << >> ELSE g[i - 1] \o R(i)
           upTo == CHOOSE g : g = [i \in 0..N |-> step(g, i)]
<1>1. N \in Nat
  BY LenProperties DEF PortLists
<1>2. \A n : Drecs!PortsTo(l, n) = upTo[n]
  BY DEF Drecs!PortsTo
<1>3. \A i \in 1..N : R(i) \in D
  <2> SUFFICES ASSUME NEW i \in 1..N PROVE R(i) \in D
    OBVIOUS
  <2> DEFINE a == l[i][1]
             b == l[i][2]
             m == b - a + 1
  <2>1. l[i] \in (0..(PortModulus - 2)) \X (0..(PortModulus - 2))
    BY ElementOfSeq DEF PortLists
  <2>2. a \in Int /\ b \in Int
    BY <2>1
  <2> HIDE DEF a, b
  <2>3. CASE m >= 0
    <3>1. m \in Nat /\ Drecs!PortRange(a, b) \in [1..m -> Int]
      BY <2>2, <2>3 DEF Drecs!PortRange
    <3>2. Drecs!PortRange(a, b) \in Seq(Int)
      BY <3>1, SeqDef
    <3> QED
      BY <3>2 DEF a, b
  <2>4. CASE ~(m >= 0)
    <3>1. 1..m = {} /\ 1..0 = {} /\ 0 \in Nat
      BY <2>2, <2>4
    <3>2. Drecs!PortRange(a, b) \in [1..0 -> Int]
      BY <3>1 DEF Drecs!PortRange
    <3>3. Drecs!PortRange(a, b) \in Seq(Int)
      BY <3>1, <3>2, SeqDef
    <3> QED
      BY <3>3 DEF a, b
  <2> QED
    BY <2>3, <2>4
<1> HIDE DEF R
<1>4. F \in [D \X (1..N) -> D]
  <2>1. \A p \in D \X (1..N) : p[1] \o R(p[2]) \in D
    BY <1>3, ConcatProperties
  <2> QED
    BY <2>1
<1>5. \A x \in D, n \in 1..N : F[<<x, n>>] = x \o R(n)
  OBVIOUS
<1> HIDE DEF N, F
<1>6. << >> \in D
  BY EmptySeq
<1>7. PICK g : Made(D, F, << >>, N, g)
  BY <1>1, <1>4, <1>6, MadeExists
<1>8. g \in [0..N -> D] /\ g[0] = << >> /\ \A n \in 1..N : g[n] = F[<<g[n - 1], n>>]
  BY <1>7 DEF Made
<1> HIDE DEF D
<1>9. \A n \in 1..N : n \in 0..N /\ n - 1 \in 0..N /\ n # 0
  BY <1>1
<1>10. g = [i \in 0..N |-> step(g, i)]
  <2>1. ASSUME NEW i \in 0..N PROVE g[i] = step(g, i)
    <3>1. CASE i = 0
      BY <1>8, <3>1
    <3>2. CASE i # 0
      <4>1. i \in 1..N
        BY <1>1, <3>2
      <4> QED
        BY <1>5, <1>8, <1>9, <3>2, <4>1
    <3> QED
      BY <3>1, <3>2
  <2> HIDE DEF step
  <2> QED
    BY <1>8, <2>1
<1>11. upTo = [i \in 0..N |-> step(upTo, i)]
  BY <1>10
<1> HIDE DEF upTo
<1>12. 0 \in 0..N
  BY <1>1
<1>13. upTo[0] = << >> /\ \A n \in 1..N : upTo[n] = upTo[n - 1] \o R(n)
  BY <1>9, <1>11, <1>12
<1>14. \A n \in 0..N : upTo[n] \in D
  <2> DEFINE bad == {n \in 0..N : upTo[n] \notin D}
  <2>1. SUFFICES ASSUME bad # {} PROVE FALSE
    OBVIOUS
  <2>2. bad \subseteq Nat
    OBVIOUS
  <2>3. PICK n \in bad : \A k \in bad : n <= k
    <3> HIDE DEF bad
    <3> QED
      BY <2>1, <2>2, LeastOf
  <2>4. n \in 0..N /\ upTo[n] \notin D
    OBVIOUS
  <2>5. n # 0
    BY <1>6, <1>13, <2>4
  <2>6. n \in 1..N /\ n - 1 \in 0..N /\ ~(n <= n - 1)
    BY <1>1, <2>4, <2>5
  <2>7. upTo[n - 1] \in D
    BY <2>3, <2>6
  <2>8. upTo[n] \in D
    BY <1>3, <1>13, <2>6, <2>7, ConcatProperties DEF D
  <2> QED
    BY <2>4, <2>8
<1> QED
  BY <1>2, <1>13, <1>14 DEF N, D, R

\* What is read of a list l: k of its items are taken.
ListAt(l, k) ==
  /\ Len(s4) = Len(l) - k
  /\ \A i \in 1..Len(s4) : s4[i] = l[k + i]

\* The ports written are those of w, as long as these are fewer than count can count.
Written(w) == s5 = w \/ Len(w) >= PortModulus

Listing(l, k) == ListAt(l, k) /\ Written(Drecs!PortsTo(l, k))

\* The k-th item is being written: the ports below s7 are.
Writing(l, k) ==
  /\ ListAt(l, k) /\ k >= 1
  /\ s8 = l[k][2] /\ l[k][1] <= s7 /\ s7 <= s8 + 1
  /\ Written(Drecs!PortsTo(l, k - 1) \o Drecs!PortRange(l[k][1], s7 - 1))
  /\ Len(s5) + (s8 - s7 + 1) <= s6

\* The ports of the last list there is among the first n options.
LinePorts(n) == LET last == Drecs!LastPorts(n) IN Drecs!PortsTo(last, Len(last))

\* n options were read.
LeftAt(n) ==
  /\ Len(s2) = Len(s1.options) - n
  /\ \A i \in 1..Len(s2) : s2[i] = s1.options[n + i]

DrecAt(n) ==
  LET l == s1.options[n].value
  IN /\ LeftAt(n)
     /\ s9 \in {"reading", "accepted"} =>
          s3.ports = LinePorts(n) \/ Len(LinePorts(n)) >= PortModulus
     /\ s9 = "accepted" => n = Len(s1.options)
     /\ s9 \in {"listing", "writing"} =>
          /\ n >= 1 /\ s1.options[n].label = "PORT" /\ (Drecs!Groupwise \/ n = 1)
          /\ s4 \in PortLists
     /\ s9 = "listing" => \E k \in 0..Len(l) : Listing(l, k)
     /\ s9 = "writing" => s7 \in Nat /\ s8 \in Nat /\ \E k \in 0..Len(l) : Writing(l, k)

DrecInv ==
  /\ s1 \in DrecLines
  /\ s2 \in Seq(ToSet(s1.options))
  /\ DOMAIN s3 = {"interface", "source", "ports", "rxBuffer"} /\ s3 = [x \in DOMAIN s3 |-> s3[x]]
  /\ s5 \in Seq(Int) /\ s6 \in Nat /\ Len(s5) <= s6
  /\ \E n \in 0..Len(s1.options) : DrecAt(n)

LEMMA DrecFacts ==
  ASSUME s1 \in DrecLines
  PROVE  /\ s1.options \in Seq(ToSet(s1.options))
         /\ Len(s1.options) \in Nat
         /\ \A i \in 1..Len(s1.options) :
              s1.options[i].label = "PORT" => s1.options[i].value \in PortLists
<1>1. s1.options \in Seq(ToSet(s1.options))
  BY LineAssumption
<1>2. Len(s1.options) \in Nat /\ DOMAIN s1.options = 1..Len(s1.options)
  BY <1>1, LenProperties
<1> QED
  BY <1>1, <1>2, LineAssumption DEF PortLists

\* The last list of ports among the options.
LEMMA LastPortsNext ==
  ASSUME NEW n \in Nat
  PROVE  /\ Drecs!LastPorts(0) = << >>
         /\ Drecs!LastPorts(n + 1) =
              IF s1.options[n + 1].label = "PORT" /\ (Drecs!Groupwise \/ n + 1 = 1)
              THEN s1.options[n + 1].value ELSE Drecs!LastPorts(n)
<1> DEFINE counts(i) == s1.options[i].label = "PORT" /\ (Drecs!Groupwise \/ i = 1)
           S(m) == {i \in 1..m : counts(i)}
<1>1. Drecs!LastPorts(0) = << >>
  <2>1. S(0) = {}
    BY 1..0 = {}
  <2> QED
    BY <2>1 DEF Drecs!LastPorts
<1>2. 1..(n + 1) = 1..n \cup {n + 1}
  OBVIOUS
<1>3. CASE counts(n + 1)
  <2>1. n + 1 \in S(n + 1) /\ S(n + 1) \subseteq 1..(n + 1) /\ n + 1 \in Nat
    BY <1>2, <1>3
  <2> HIDE DEF S
  <2>2. Drecs!Max(S(n + 1)) = n + 1 /\ S(n + 1) # {}
    BY <2>1, LastPlace
  <2> QED
    BY <1>1, <1>3, <2>2 DEF Drecs!LastPorts, S
<1>4. CASE ~counts(n + 1)
  <2>1. S(n + 1) = S(n)
    <3> HIDE DEF counts
    <3> QED
      BY <1>2, <1>4
  <2> QED
    BY <1>1, <1>4, <2>1 DEF Drecs!LastPorts
<1> QED
  BY <1>3, <1>4

\* A LISTEN has no list but its first option.
LEMMA FirstListStays ==
  ASSUME NEW n \in Nat, n >= 1, NEW m \in Nat, m >= n, ~Drecs!Groupwise
  PROVE  Drecs!LastPorts(m) = Drecs!LastPorts(n)
<1> DEFINE S(k) == {i \in 1..k : s1.options[i].label = "PORT" /\ (Drecs!Groupwise \/ i = 1)}
<1>1. \A k \in {n, m} : S(k) = {i \in {1} : s1.options[i].label = "PORT"}
  OBVIOUS
<1>2. S(m) = S(n)
  BY <1>1
<1> QED
  BY <1>2 DEF Drecs!LastPorts

LEMMA DrecBegins ==
  ASSUME Drecs!Init
  PROVE  DrecInv
<1>1. /\ s1 \in DrecLines /\ s2 = s1.options /\ s5 = << >> /\ s6 = 0 /\ s9 = "reading"
      /\ s3 = [interface |-> "none", source |-> "none", ports |-> << >>, rxBuffer |-> 0]
  BY DEF Drecs!Init
<1>2. 0 \in 0..Len(s1.options) /\ LeftAt(0)
  BY <1>1, DrecFacts DEF LeftAt
<1>3. << >> \in PortLists /\ << >> \in Seq(Int) /\ Len(<< >>) = 0
  BY EmptySeq DEF PortLists
<1>4. LinePorts(0) = << >>
  BY <1>3, LastPortsNext, PortsToFacts DEF LinePorts
<1>5. DrecAt(0)
  BY <1>1, <1>2, <1>3, <1>4 DEF DrecAt
<1> QED
  BY <1>1, <1>2, <1>3, <1>5, DrecFacts DEF DrecInv

LEMMA Unwrapped ==
  ASSUME NEW x \in 0..(PortModulus - 1)
  PROVE  Drecs!UINT16(x) = x
<1>1. PortModulus \in Int /\ x \in Int /\ 0 <= x /\ x < PortModulus
  BY LineAssumption
<1> QED
  BY <1>1 DEF Drecs!UINT16

LEMMA LinePortsAsBefore ==
  ASSUME NEW n, s1' = s1
  PROVE  LinePorts(n)' = LinePorts(n) /\ Drecs!Groupwise' = Drecs!Groupwise
<1>1. Drecs!Groupwise' = Drecs!Groupwise
  BY DEF Drecs!Groupwise
<1>2. Drecs!LastPorts(n)' = Drecs!LastPorts(n)
  BY <1>1 DEF Drecs!LastPorts
<1> QED
  BY <1>1, <1>2 DEF LinePorts

\* The option read next.
LEMMA DrecOption ==
  ASSUME s1 \in DrecLines, s2 \in Seq(ToSet(s1.options)),
         NEW n \in 0..Len(s1.options), LeftAt(n), s2 # << >>, s1' = s1, s2' = Tail(s2)
  PROVE  /\ n + 1 \in 1..Len(s1.options) /\ Head(s2) = s1.options[n + 1]
         /\ s2' \in Seq(ToSet(s1.options)) /\ LeftAt(n + 1)'
<1>1. Len(s1.options) \in Nat /\ n \in Nat /\ Len(s2) = Len(s1.options) - n
  BY DrecFacts DEF LeftAt
<1>2. /\ Head(s2) = s2[1] /\ s2' \in Seq(ToSet(s1.options)) /\ Len(s2') = Len(s2) - 1
      /\ Len(s2) >= 1 /\ \A i \in 1..Len(s2') : s2'[i] = s2[i + 1]
  BY HeadTailProperties, EmptySeq, LenProperties
<1>3. n + 1 \in 1..Len(s1.options) /\ Len(s2') = Len(s1.options) - (n + 1)
  BY <1>1, <1>2
<1>4. \A i \in 1..Len(s2) : s2[i] = s1.options[n + i]
  BY DEF LeftAt
<1>5. 1 \in 1..Len(s2)
  BY <1>1, <1>2
<1>6. ASSUME NEW i \in 1..Len(s2') PROVE s2'[i] = s1.options[(n + 1) + i]
  <2>1. Len(s2) \in Int /\ Len(s2') = Len(s2) - 1 /\ n \in Int
    BY <1>1, <1>2
  <2>2. i + 1 \in 1..Len(s2) /\ n + (i + 1) = (n + 1) + i
    BY <2>1
  <2> QED
    BY <1>2, <1>4, <2>2
<1>7. LeftAt(n + 1)'
  BY <1>3, <1>6 DEF LeftAt
<1> QED
  BY <1>2, <1>3, <1>4, <1>5, <1>7

\* What the options do: a refusal, a list, and what leaves the ports alone.
LEMMA DrecRefuses ==
  ASSUME DrecInv, Drecs!Refuse, NEW n \in 0..Len(s1.options),
         s1' = s1, s2' \in Seq(ToSet(s1.options)), LeftAt(n)'
  PROVE  DrecInv'
<1>1. s9' = "refused" /\ UNCHANGED <<s3, s4, s5, s6, s7, s8>>
  BY DEF Drecs!Refuse, Drecs!list
<1>2. DrecAt(n)'
  BY <1>1 DEF DrecAt
<1> QED
  BY <1>1, <1>2 DEF DrecInv

LEMMA DrecLists ==
  ASSUME DrecInv, NEW n \in 1..Len(s1.options), Drecs!ReadPorts(s1.options[n]),
         s1.options[n].label = "PORT", Drecs!Groupwise \/ n = 1,
         s1' = s1, s2' \in Seq(ToSet(s1.options)), LeftAt(n)'
  PROVE  DrecInv'
<1>1. PICK l : l = s1.options[n].value
  OBVIOUS
<1>2. s4' = l /\ s5' = << >> /\ s6' = 0 /\ s9' = "listing" /\ s3' = s3
  BY <1>1 DEF Drecs!ReadPorts
<1>3. l \in PortLists /\ n \in 0..Len(s1.options) /\ n >= 1 /\ s1 \in DrecLines
  BY <1>1, DrecFacts DEF DrecInv
<1>4. Len(l) \in Nat /\ 0 \in 0..Len(l) /\ Len(l) = Len(l) - 0
      /\ \A i \in 1..Len(l) : l[i] = l[0 + i]
  BY <1>3, LenProperties DEF PortLists
<1>5. Drecs!PortsTo(l, 0) = << >> /\ << >> \in Seq(Int) /\ Len(<< >>) = 0
  BY <1>3, PortsToFacts, EmptySeq
<1>6. Listing(l, 0)'
  BY <1>2, <1>4, <1>5 DEF Listing, ListAt, Written
<1>7. s1'.options[n].value = l /\ s1'.options[n].label = "PORT"
  BY <1>1
<1>8. Drecs!Groupwise' \/ n = 1
  BY LinePortsAsBefore
<1>9. DrecAt(n)'
  BY <1>2, <1>3, <1>4, <1>6, <1>7, <1>8 DEF DrecAt
<1>10. /\ DOMAIN s3' = {"interface", "source", "ports", "rxBuffer"}
       /\ s3' = [x \in DOMAIN s3' |-> s3'[x]]
  BY <1>2 DEF DrecInv
<1> QED
  BY <1>2, <1>3, <1>5, <1>9, <1>10 DEF DrecInv

LEMMA DrecPasses ==
  ASSUME DrecInv, NEW n \in 0..Len(s1.options), DrecAt(n), s9 = "reading",
         NEW m \in 0..Len(s1.options), LinePorts(m) = LinePorts(n),
         s1' = s1, s2' \in Seq(ToSet(s1.options)), LeftAt(m)',
         UNCHANGED <<s4, s5, s6, s7, s8, s9>>,
         NEW f \in {"interface", "source", "rxBuffer"}, NEW v, s3' = [s3 EXCEPT ![f] = v]
  PROVE  DrecInv'
<1>1. /\ DOMAIN s3 = {"interface", "source", "ports", "rxBuffer"}
      /\ s3 = [x \in DOMAIN s3 |-> s3[x]]
  BY DEF DrecInv
<1>2. s3'.ports = s3.ports /\ DOMAIN s3' = DOMAIN s3 /\ s3' = [x \in DOMAIN s3' |-> s3'[x]]
  BY <1>1
<1>3. LinePorts(m)' = LinePorts(n)
  BY LinePortsAsBefore
<1>4. s3.ports = LinePorts(n) \/ Len(LinePorts(n)) >= PortModulus
  BY DEF DrecAt
<1>5. DrecAt(m)'
  BY <1>2, <1>3, <1>4 DEF DrecAt
<1> QED
  BY <1>1, <1>2, <1>5 DEF DrecInv

LEMMA DrecReads ==
  ASSUME DrecInv, Drecs!ReadOption
  PROVE  DrecInv'
<1> DEFINE o == Head(s2)
<1>1. s1 \in DrecLines /\ s2 \in Seq(ToSet(s1.options))
  BY DEF DrecInv
<1>2. PICK n \in 0..Len(s1.options) : DrecAt(n)
  BY DEF DrecInv
<1>3. s9 = "reading" /\ s2 # << >> /\ s1' = s1 /\ s2' = Tail(s2) /\ Drecs!Groupwise
  BY DEF Drecs!ReadOption
<1>4. LeftAt(n)
  BY <1>2 DEF DrecAt
<1>5. /\ n + 1 \in 1..Len(s1.options) /\ o = s1.options[n + 1]
      /\ s2' \in Seq(ToSet(s1.options)) /\ LeftAt(n + 1)'
  BY <1>1, <1>3, <1>4, DrecOption
<1>6. n \in Nat /\ n + 1 \in 0..Len(s1.options)
  BY <1>1, <1>5, DrecFacts
<1>7. CASE Drecs!Refuse
  BY <1>3, <1>5, <1>6, <1>7, DrecRefuses
<1>8. CASE o.label = "PORT" /\ Drecs!ReadPorts(o)
  BY <1>3, <1>5, <1>8, DrecLists
<1>9. ASSUME o.label # "PORT", UNCHANGED <<s4, s5, s6, s7, s8, s9>>,
             NEW f \in {"interface", "source", "rxBuffer"}, NEW v, s3' = [s3 EXCEPT ![f] = v]
      PROVE  DrecInv'
  <2>1. LinePorts(n + 1) = LinePorts(n)
    BY <1>5, <1>6, <1>9, LastPortsNext DEF LinePorts
  <2> QED
    BY <1>2, <1>3, <1>5, <1>6, <1>9, <2>1, DrecPasses
<1>10. CASE o.label = "INTERFACE" /\ Drecs!ReadInterface(o)
  <2>1. s3' = [s3 EXCEPT !["interface"] = o.value] /\ UNCHANGED <<s4, s5, s6, s7, s8, s9>>
    BY <1>10 DEF Drecs!ReadInterface, Drecs!list
  <2> QED
    BY <1>9, <1>10, <2>1
<1>11. CASE o.label = "SRC" /\ Drecs!ReadSource(o)
  <2>1. \/ Drecs!Refuse
        \/ s3' = [s3 EXCEPT !["source"] = o.value] /\ UNCHANGED <<s4, s5, s6, s7, s8, s9>>
    BY <1>11 DEF Drecs!ReadSource, Drecs!list
  <2> QED
    BY <1>7, <1>9, <1>11, <2>1
<1>12. CASE o.label = "RXBUFFER" /\ Drecs!SkipRxBuffer(o)
  <2>1. \/ Drecs!Refuse
        \/ s3' = s3 /\ UNCHANGED <<s4, s5, s6, s7, s8, s9>>
    BY <1>12 DEF Drecs!SkipRxBuffer, Drecs!list
  <2>2. s3 = [s3 EXCEPT !["rxBuffer"] = s3["rxBuffer"]]
    BY DEF DrecInv
  <2> QED
    BY <1>7, <1>9, <1>12, <2>1, <2>2
<1> HIDE DEF o
<1>13. \/ Drecs!Refuse
       \/ o.label = "INTERFACE" /\ Drecs!ReadInterface(o)
       \/ o.label = "SRC" /\ Drecs!ReadSource(o)
       \/ o.label = "RXBUFFER" /\ Drecs!SkipRxBuffer(o)
       \/ o.label = "PORT" /\ Drecs!ReadPorts(o)
  BY DEF Drecs!ReadOption, o
<1> QED
  BY <1>7, <1>8, <1>10, <1>11, <1>12, <1>13

LEMMA DrecReadsList ==
  ASSUME DrecInv, Drecs!ReadList
  PROVE  DrecInv'
<1>1. s1 \in DrecLines /\ s2 \in Seq(ToSet(s1.options))
  BY DEF DrecInv
<1>2. PICK n \in 0..Len(s1.options) : DrecAt(n)
  BY DEF DrecInv
<1>3. /\ s9 = "reading" /\ s2 # << >> /\ s1' = s1 /\ s2' = Tail(s2)
      /\ Len(s2) = Len(s1.options)
  BY DEF Drecs!ReadList
<1>4. LeftAt(n)
  BY <1>2 DEF DrecAt
<1>5. /\ n + 1 \in 1..Len(s1.options) /\ Head(s2) = s1.options[n + 1]
      /\ s2' \in Seq(ToSet(s1.options)) /\ LeftAt(n + 1)'
  BY <1>1, <1>3, <1>4, DrecOption
<1>6. n \in Nat /\ n + 1 \in 0..Len(s1.options) /\ n + 1 = 1
  BY <1>1, <1>3, <1>4, <1>5, DrecFacts DEF LeftAt
<1>7. \/ Drecs!Refuse
      \/ s1.options[n + 1].label = "PORT" /\ Drecs!ReadPorts(s1.options[n + 1])
  BY <1>5 DEF Drecs!ReadList
<1> QED
  BY <1>3, <1>5, <1>6, <1>7, DrecRefuses, DrecLists

LEMMA DrecReadsOn ==
  ASSUME DrecInv, Drecs!ReadAfterList
  PROVE  DrecInv'
<1> DEFINE o == Head(s2)
           N == Len(s1.options)
<1>1. s1 \in DrecLines /\ s2 \in Seq(ToSet(s1.options))
  BY DEF DrecInv
<1>2. PICK n \in 0..N : DrecAt(n)
  BY DEF DrecInv
<1>3. /\ s9 = "reading" /\ s1' = s1 /\ s2' = << >> /\ ~Drecs!Groupwise
      /\ Len(s2) < N
  BY DEF Drecs!ReadAfterList
<1>4. N \in Nat /\ N \in 0..N /\ n \in Nat /\ n >= 1 /\ N >= n
  <2>1. N \in Nat
    BY <1>1, DrecFacts
  <2>2. Len(s2) = N - n
    BY <1>2 DEF DrecAt, LeftAt
  <2> QED
    BY <1>3, <2>1, <2>2
<1>5. s2' \in Seq(ToSet(s1.options)) /\ LeftAt(N)'
  <2>1. Len(s2') = 0 /\ s2' \in Seq(ToSet(s1.options))
    BY <1>3, EmptySeq
  <2>2. 1..0 = {} /\ N - N = 0
    BY <1>4
  <2>3. s1'.options = s1.options
    BY <1>3
  <2> QED
    BY <2>1, <2>2, <2>3 DEF LeftAt
<1>6. LinePorts(N) = LinePorts(n)
  BY <1>3, <1>4, FirstListStays DEF LinePorts
<1>7. CASE Drecs!Refuse
  BY <1>3, <1>4, <1>5, <1>7, DrecRefuses
<1>8. ASSUME UNCHANGED <<s4, s5, s6, s7, s8, s9>>, NEW v, s3' = [s3 EXCEPT !["rxBuffer"] = v]
      PROVE  DrecInv'
  BY <1>2, <1>3, <1>4, <1>5, <1>6, <1>8, DrecPasses
<1>9. \/ Drecs!Refuse
      \/ s3' = [s3 EXCEPT !["rxBuffer"] = o.value] /\ UNCHANGED <<s4, s5, s6, s7, s8, s9>>
      \/ s3' = s3 /\ UNCHANGED <<s4, s5, s6, s7, s8, s9>>
  BY DEF Drecs!ReadAfterList, Drecs!list
<1>10. s3 = [s3 EXCEPT !["rxBuffer"] = s3["rxBuffer"]]
  BY DEF DrecInv
<1> HIDE DEF o, N
<1> QED
  BY <1>7, <1>8, <1>9, <1>10

LEMMA DrecTakes ==
  ASSUME DrecInv, Drecs!TakeItem
  PROVE  DrecInv'
<1>1. /\ s1 \in DrecLines /\ s2 \in Seq(ToSet(s1.options))
      /\ s5 \in Seq(Int) /\ s6 \in Nat /\ Len(s5) <= s6
      /\ DOMAIN s3 = {"interface", "source", "ports", "rxBuffer"}
      /\ s3 = [x \in DOMAIN s3 |-> s3[x]]
  BY DEF DrecInv
<1>2. PICK n \in 0..Len(s1.options) : DrecAt(n)
  BY DEF DrecInv
<1>3. s9 = "listing" /\ s4 # << >> /\ UNCHANGED <<s1, s2, s3>>
  <2>1. UNCHANGED s3
    BY DEF Drecs!TakeItem, Drecs!Refuse
  <2> QED
    BY <2>1 DEF Drecs!TakeItem
<1>4. PICK l : l = s1.options[n].value
  OBVIOUS
<1>5. PICK k \in 0..Len(l) : Listing(l, k)
  BY <1>2, <1>3, <1>4 DEF DrecAt
<1>6. /\ n >= 1 /\ s1.options[n].label = "PORT" /\ s4 \in PortLists
      /\ (Drecs!Groupwise \/ n = 1)' /\ LeftAt(n)'
  <2>1. n >= 1 /\ s1.options[n].label = "PORT" /\ s4 \in PortLists /\ (Drecs!Groupwise \/ n = 1)
        /\ LeftAt(n)
    BY <1>2, <1>3 DEF DrecAt
  <2>2. LeftAt(n)'
    BY <1>3, <2>1 DEF LeftAt
  <2> QED
    BY <1>3, <2>1, <2>2, LinePortsAsBefore
<1>7. n \in 1..Len(s1.options) /\ l \in PortLists
  <2>1. n \in 1..Len(s1.options)
    BY <1>1, <1>6, DrecFacts
  <2> QED
    BY <1>1, <1>4, <1>6, <2>1, DrecFacts
<1>8. CASE s9' = "refused" /\ UNCHANGED <<s5, s6>>
  <2>1. DrecAt(n)'
    BY <1>3, <1>6, <1>8 DEF DrecAt
  <2> QED
    BY <1>1, <1>3, <1>8, <2>1 DEF DrecInv
<1>9. CASE s9' # "refused"
  <2>1. Len(l) \in Nat /\ k \in Nat /\ Len(s4) = Len(l) - k
        /\ \A i \in 1..Len(s4) : s4[i] = l[k + i]
    BY <1>5, <1>7, LenProperties DEF Listing, ListAt, PortLists
  <2>2. /\ Len(s4) >= 1 /\ Head(s4) = s4[1]
        /\ Tail(s4) \in PortLists /\ Len(Tail(s4)) = Len(s4) - 1
        /\ \A i \in 1..Len(Tail(s4)) : Tail(s4)[i] = s4[i + 1]
    BY <1>3, <1>6, HeadTailProperties, EmptySeq, LenProperties DEF PortLists
  <2>3. k + 1 \in 1..Len(l) /\ k + 1 \in 0..Len(l) /\ (k + 1) - 1 = k /\ k + 1 >= 1
    BY <2>1, <2>2
  <2>4. Head(s4) = l[k + 1]
    <3>1. 1 \in 1..Len(s4)
      BY <2>1, <2>2
    <3> QED
      BY <2>1, <2>2, <3>1
  <2>5. ASSUME NEW i \in 1..Len(Tail(s4)) PROVE Tail(s4)[i] = l[(k + 1) + i]
    <3>1. i + 1 \in 1..Len(s4) /\ k + (i + 1) = (k + 1) + i
      <4>1. Len(s4) \in Int /\ Len(Tail(s4)) = Len(s4) - 1 /\ k \in Int
        BY <2>1, <2>2
      <4> QED
        BY <4>1
    <3> QED
      BY <2>1, <2>2, <3>1
  <2> DEFINE a == l[k + 1][1]
             b == l[k + 1][2]
  <2>6. a \in 0..(PortModulus - 2) /\ b \in 0..(PortModulus - 2)
    <3>1. l[k + 1] \in (0..(PortModulus - 2)) \X (0..(PortModulus - 2))
      BY <1>7, <2>3, ElementOfSeq DEF PortLists
    <3> QED
      BY <3>1
  <2>7. Drecs!UINT16(a) = a /\ Drecs!UINT16(b) = b
    BY <2>6, Unwrapped, LineAssumption
  <2>8. /\ ~(b < a) /\ s6' = Drecs!Grown(Drecs!UINT16(b - a + 1)) /\ s7' = a /\ s8' = b
        /\ s9' = "writing" /\ s5' = s5 /\ s4' = Tail(s4)
    BY <1>9, <2>4, <2>7 DEF Drecs!TakeItem, Drecs!Refuse
  <2>9. a \in Nat /\ b \in Nat /\ b >= a /\ b - a + 1 \in 0..(PortModulus - 1)
    BY <2>6, <2>8, LineAssumption
  <2> HIDE DEF a, b
  <2>10. s6' \in Nat /\ Len(s5) + (b - a + 1) <= s6'
    <3> DEFINE r == b - a + 1
    <3>1. s6' = IF r > s6 - Len(s5) THEN s6 + r ELSE s6
      BY <2>8, <2>9, Unwrapped DEF Drecs!Grown
    <3>2. r \in Nat /\ Len(s5) \in Nat
      BY <1>1, <2>9, LenProperties
    <3> HIDE DEF r
    <3>3. s6' \in Nat /\ Len(s5) + r <= s6'
      BY <1>1, <3>1, <3>2
    <3> QED
      BY <3>3 DEF r
  <2>11. Written(Drecs!PortsTo(l, k) \o Drecs!PortRange(a, a - 1))
    <3>1. Drecs!PortRange(a, a - 1) = << >>
      <4>1. Drecs!PortRange(a, a - 1) = [j \in 1..0 |-> a + j - 1]
        BY <2>9, a - 1 - a + 1 = 0 DEF Drecs!PortRange
      <4>2. 1..0 = {}
        OBVIOUS
      <4> QED
        BY <4>1, <4>2
    <3>2. Drecs!PortsTo(l, k) \in Seq(Int) /\ Written(Drecs!PortsTo(l, k))
      BY <1>5, <1>7, PortsToFacts DEF Listing
    <3>3. Drecs!PortsTo(l, k) \o Drecs!PortRange(a, a - 1) = Drecs!PortsTo(l, k)
      BY <3>1, <3>2, ConcatEmptySeq
    <3> QED
      BY <3>2, <3>3
  <2>12. Writing(l, k + 1)'
    <3>1. Len(s4') = Len(l) - (k + 1) /\ \A i \in 1..Len(s4') : s4'[i] = l[(k + 1) + i]
      BY <2>1, <2>2, <2>5, <2>8
    <3>2. l[k + 1][1] = a /\ l[k + 1][2] = b
      BY DEF a, b
    <3>3. Len(s5') + (s8' - s7' + 1) <= s6' /\ s7' <= s8' + 1 /\ a <= s7'
      BY <1>1, <2>8, <2>9, <2>10
    <3>4. Written(Drecs!PortsTo(l, (k + 1) - 1) \o Drecs!PortRange(a, s7 - 1))'
      BY <2>3, <2>8, <2>11 DEF Written
    <3> QED
      BY <2>3, <2>8, <3>1, <3>2, <3>3, <3>4 DEF Writing, ListAt
  <2>13. Len(s5') <= s6'
    <3>1. Len(s5) \in Nat
      BY <1>1, LenProperties
    <3> QED
      BY <2>8, <2>9, <2>10, <3>1
  <2>14. DrecAt(n)'
    <3>1. s1'.options[n].value = l /\ s1'.options[n].label = "PORT"
      BY <1>3, <1>4, <1>6
    <3> QED
      BY <1>3, <1>6, <2>2, <2>3, <2>8, <2>9, <2>12, <3>1 DEF DrecAt
  <2> QED
    BY <1>1, <1>3, <2>8, <2>10, <2>13, <2>14 DEF DrecInv
<1> QED
  BY <1>8, <1>9 DEF Drecs!TakeItem, Drecs!Refuse, Drecs!list

LEMMA DrecWrites ==
  ASSUME DrecInv, Drecs!WritePort
  PROVE  DrecInv'
<1>1. /\ s1 \in DrecLines /\ s2 \in Seq(ToSet(s1.options))
      /\ s5 \in Seq(Int) /\ s6 \in Nat /\ Len(s5) <= s6
      /\ DOMAIN s3 = {"interface", "source", "ports", "rxBuffer"}
      /\ s3 = [x \in DOMAIN s3 |-> s3[x]]
  BY DEF DrecInv
<1>2. PICK n \in 0..Len(s1.options) : DrecAt(n)
  BY DEF DrecInv
<1>3. s9 = "writing" /\ UNCHANGED <<s1, s2, s3, s4, s6, s8>>
  BY DEF Drecs!WritePort
<1>4. PICK l : l = s1.options[n].value
  OBVIOUS
<1>5. PICK k \in 0..Len(l) : Writing(l, k)
  BY <1>2, <1>3, <1>4 DEF DrecAt
<1>6. /\ n >= 1 /\ s1.options[n].label = "PORT" /\ s4 \in PortLists
      /\ (Drecs!Groupwise \/ n = 1)' /\ LeftAt(n)'
      /\ s7 \in Nat /\ s8 \in Nat
  <2>1. n >= 1 /\ s1.options[n].label = "PORT" /\ s4 \in PortLists /\ (Drecs!Groupwise \/ n = 1)
        /\ LeftAt(n) /\ s7 \in Nat /\ s8 \in Nat
    BY <1>2, <1>3 DEF DrecAt
  <2>2. LeftAt(n)'
    BY <1>3, <2>1 DEF LeftAt
  <2> QED
    BY <1>3, <2>1, <2>2, LinePortsAsBefore
<1>7. n \in 1..Len(s1.options) /\ l \in PortLists
  <2>1. n \in 1..Len(s1.options)
    BY <1>1, <1>6, DrecFacts
  <2> QED
    BY <1>1, <1>4, <1>6, <2>1, DrecFacts
<1>8. /\ ListAt(l, k) /\ k >= 1 /\ s8 = l[k][2] /\ l[k][1] <= s7 /\ s7 <= s8 + 1
      /\ Written(Drecs!PortsTo(l, k - 1) \o Drecs!PortRange(l[k][1], s7 - 1))
      /\ Len(s5) + (s8 - s7 + 1) <= s6
  BY <1>5 DEF Writing
<1>9. k \in 1..Len(l) /\ k - 1 \in 0..Len(l) /\ ListAt(l, k)'
  <2>1. Len(l) \in Nat
    BY <1>7, LenProperties DEF PortLists
  <2> QED
    BY <1>3, <1>8, <2>1 DEF ListAt
<1>10. l[k][1] \in Nat /\ l[k][2] \in 0..(PortModulus - 2)
  <2>1. l[k] \in (0..(PortModulus - 2)) \X (0..(PortModulus - 2))
    BY <1>7, <1>9, ElementOfSeq DEF PortLists
  <2> QED
    BY <2>1
<1>11. s1'.options[n].value = l /\ s1'.options[n].label = "PORT"
  BY <1>3, <1>4, <1>6
<1> DEFINE a == l[k][1]
           before == Drecs!PortsTo(l, k - 1)
<1>12. before \in Seq(Int)
  BY <1>7, <1>9, PortsToFacts
<1> HIDE DEF before
<1>13. CASE s7 <= s8
  <2>1. /\ s5' = IF Len(s5) + 1 = PortModulus THEN << >> ELSE Append(s5, s7)
        /\ s7' = Drecs!UINT16(s7 + 1) /\ s9' = s9
    BY <1>13 DEF Drecs!WritePort, Drecs!Write
  <2>2. s7 + 1 \in 0..(PortModulus - 1)
    BY <1>6, <1>8, <1>10, <1>13, LineAssumption
  <2>3. s7' = s7 + 1
    BY <2>1, <2>2, Unwrapped
  <2>4. /\ Drecs!PortRange(a, s7 - 1) \in Seq(Int)
        /\ Append(Drecs!PortRange(a, s7 - 1), s7) = Drecs!PortRange(a, s7)
    <3>1. s7 - 1 \in Int /\ s7 - 1 >= a - 1 /\ (s7 - 1) + 1 = s7
      BY <1>6, <1>8, <1>10
    <3> QED
      BY <1>10, <3>1, RangeFacts
  <2>5. s5' \in Seq(Int) /\ Len(s5') <= Len(s5) + 1 /\ Len(s5') \in Nat
    <3>1. Append(s5, s7) \in Seq(Int) /\ Len(Append(s5, s7)) = Len(s5) + 1
      BY <1>1, <1>6, AppendProperties
    <3>2. << >> \in Seq(Int) /\ Len(<< >>) = 0 /\ Len(s5) \in Nat
      BY <1>1, EmptySeq, LenProperties
    <3> QED
      BY <2>1, <3>1, <3>2
  <2>6. \/ s5' = before \o Drecs!PortRange(a, s7)
        \/ Len(before \o Drecs!PortRange(a, s7)) >= PortModulus
    <3> DEFINE r == Drecs!PortRange(a, s7 - 1)
               w == before \o r
    <3>1. r \in Seq(Int) /\ s7 \in Int /\ <<s7>> \in Seq(Int)
      BY <1>6, <2>4
    <3>2. s5 = w \/ Len(w) >= PortModulus
      BY <1>8 DEF before, Written
    <3>3. w \in Seq(Int)
      BY <1>12, <3>1, ConcatProperties
    <3>4. Append(w, s7) = before \o Append(r, s7)
      <4> HIDE DEF r
      <4>1. w \o <<s7>> = before \o (r \o <<s7>>)
        BY <1>12, <3>1, ConcatAssociative
      <4> HIDE DEF w
      <4>2. Append(w, s7) = w \o <<s7>> /\ Append(r, s7) = r \o <<s7>>
        BY <3>1, <3>3, AppendIsConcat
      <4> QED
        BY <4>1, <4>2
    <3>5. Append(w, s7) = before \o Drecs!PortRange(a, s7)
      BY <2>4, <3>4
    <3> HIDE DEF w, r
    <3>6. Len(Append(w, s7)) = Len(w) + 1 /\ Len(w) \in Nat /\ PortModulus \in Nat
      BY <3>1, <3>3, AppendProperties, LenProperties, LineAssumption
    <3>7. s5' = Append(w, s7) \/ Len(Append(w, s7)) >= PortModulus
      BY <2>1, <3>2, <3>6
    <3> QED
      BY <3>5, <3>7
  <2>7. Len(s5') + (s8' - s7' + 1) <= s6' /\ s7' <= s8' + 1 /\ a <= s7' /\ Len(s5') <= s6'
    <3>1. Len(s5) \in Nat
      BY <1>1, LenProperties
    <3>2. /\ a \in Nat /\ a <= s7 /\ s8' = s8 /\ s6' = s6 /\ s6 \in Nat /\ s7 \in Nat /\ s8 \in Nat
          /\ Len(s5) + (s8 - s7 + 1) <= s6 /\ Len(s5) <= s6
      BY <1>1, <1>3, <1>6, <1>8, <1>10
    <3> HIDE DEF a
    <3> QED
      BY <1>13, <2>3, <2>5, <3>1, <3>2
  <2>8. Writing(l, k)'
    <3>1. s7' - 1 = s7
      BY <1>6, <2>3
    <3>2. Written(Drecs!PortsTo(l, k - 1) \o Drecs!PortRange(l[k][1], s7 - 1))'
      BY <2>6, <3>1 DEF before, Written
    <3> QED
      BY <1>3, <1>8, <1>9, <2>7, <3>2 DEF Writing
  <2>9. DrecAt(n)'
    BY <1>3, <1>6, <1>9, <1>11, <2>1, <2>3, <2>8 DEF DrecAt
  <2> QED
    BY <1>1, <1>3, <2>5, <2>7, <2>9 DEF DrecInv
<1>14. CASE ~(s7 <= s8)
  <2>1. s9' = "listing" /\ s5' = s5 /\ s7' = s7
    BY <1>14 DEF Drecs!WritePort
  <2>2. s7 - 1 = s8
    BY <1>6, <1>8, <1>14
  <2>3. Written(Drecs!PortsTo(l, k))
    BY <1>7, <1>8, <1>9, <2>2, PortsToFacts
  <2>4. Listing(l, k)'
    BY <1>9, <2>1, <2>3 DEF Listing, Written
  <2>5. DrecAt(n)'
    BY <1>3, <1>6, <1>11, <2>1, <2>4 DEF DrecAt
  <2> QED
    BY <1>1, <1>3, <2>1, <2>5 DEF DrecInv
<1> QED
  BY <1>13, <1>14

\* The list is made, or the line ends.
LEMMA DrecEnds ==
  ASSUME DrecInv, Drecs!Listed \/ Drecs!End
  PROVE  DrecInv'
<1>1. /\ s1 \in DrecLines /\ s2 \in Seq(ToSet(s1.options))
      /\ s5 \in Seq(Int) /\ s6 \in Nat /\ Len(s5) <= s6
      /\ DOMAIN s3 = {"interface", "source", "ports", "rxBuffer"}
      /\ s3 = [x \in DOMAIN s3 |-> s3[x]]
  BY DEF DrecInv
<1>2. PICK n \in 0..Len(s1.options) : DrecAt(n)
  BY DEF DrecInv
<1>3. UNCHANGED <<s1, s2, s4, s5, s6, s7, s8>>
  BY DEF Drecs!Listed, Drecs!End, Drecs!Refuse, Drecs!list
<1>4. LeftAt(n) /\ LeftAt(n)'
  BY <1>2, <1>3 DEF DrecAt, LeftAt
<1>5. Len(s1.options) \in Nat /\ n \in Nat
  BY <1>1, DrecFacts
<1>6. LinePorts(n)' = LinePorts(n)
  BY <1>3, LinePortsAsBefore
<1>7. CASE Drecs!End
  <2>1. /\ s9 = "reading" /\ s3' = s3 /\ s9' \in {"accepted", "refused"}
        /\ s9' = "accepted" => s2 = << >>
    BY <1>7 DEF Drecs!End
  <2>2. s9' = "accepted" => n = Len(s1.options)
    BY <1>4, <1>5, <2>1, EmptySeq DEF LeftAt
  <2>3. s3.ports = LinePorts(n) \/ Len(LinePorts(n)) >= PortModulus
    BY <1>2, <2>1 DEF DrecAt
  <2>4. DrecAt(n)'
    BY <1>3, <1>4, <1>6, <2>1, <2>2, <2>3 DEF DrecAt
  <2> QED
    BY <1>1, <1>3, <2>1, <2>4 DEF DrecInv
<1>8. CASE Drecs!Listed /\ s9' = "refused"
  <2>1. /\ DOMAIN s3' = {"interface", "source", "ports", "rxBuffer"}
        /\ s3' = [x \in DOMAIN s3' |-> s3'[x]]
    BY <1>1, <1>8 DEF Drecs!Listed, Drecs!Refuse
  <2>2. DrecAt(n)'
    BY <1>3, <1>4, <1>8 DEF DrecAt
  <2> QED
    BY <1>1, <1>3, <2>1, <2>2 DEF DrecInv
<1>9. CASE Drecs!Listed /\ s9' # "refused"
  <2>1. s9 = "listing" /\ s4 = << >> /\ s9' = "reading" /\ s3' = [s3 EXCEPT !.ports = s5]
    BY <1>9 DEF Drecs!Listed, Drecs!Refuse
  <2>2. PICK l : l = s1.options[n].value
    OBVIOUS
  <2>3. PICK k \in 0..Len(l) : Listing(l, k)
    BY <1>2, <2>1, <2>2 DEF DrecAt
  <2>4. n >= 1 /\ s1.options[n].label = "PORT" /\ (Drecs!Groupwise \/ n = 1)
    BY <1>2, <2>1 DEF DrecAt
  <2>5. l \in PortLists /\ Len(l) \in Nat
    <3>1. n \in 1..Len(s1.options)
      BY <1>1, <2>4, DrecFacts
    <3>2. l \in PortLists
      BY <1>1, <2>2, <2>4, <3>1, DrecFacts
    <3> QED
      BY <3>2, LenProperties DEF PortLists
  <2>6. k = Len(l)
    <3>1. Len(s4) = Len(l) - k /\ Len(s4) = 0
      BY <2>1, <2>3, EmptySeq DEF Listing, ListAt
    <3> QED
      BY <2>5, <3>1
  <2>7. s5 = Drecs!PortsTo(l, Len(l)) \/ Len(Drecs!PortsTo(l, Len(l))) >= PortModulus
    BY <2>3, <2>6 DEF Listing, Written
  <2>8. LinePorts(n) = Drecs!PortsTo(l, Len(l))
    <3>1. n - 1 \in Nat /\ (n - 1) + 1 = n
      BY <1>5, <2>4
    <3> QED
      BY <2>2, <2>4, <3>1, LastPortsNext DEF LinePorts
  <2>9. /\ s3'.ports = s5 /\ DOMAIN s3' = {"interface", "source", "ports", "rxBuffer"}
        /\ s3' = [x \in DOMAIN s3' |-> s3'[x]]
    BY <1>1, <2>1
  <2>10. DrecAt(n)'
    BY <1>3, <1>4, <1>6, <2>1, <2>7, <2>8, <2>9 DEF DrecAt
  <2> QED
    BY <1>1, <1>3, <2>9, <2>10 DEF DrecInv
<1> QED
  BY <1>7, <1>8, <1>9

LEMMA DrecStep ==
  ASSUME DrecInv, Drecs!Next
  PROVE  DrecInv'
BY DrecReads, DrecReadsList, DrecReadsOn, DrecTakes, DrecWrites, DrecEnds DEF Drecs!Next

LEMMA LinePortsFinite ==
  ASSUME s1 \in DrecLines
  PROVE  Len(LinePorts(Len(s1.options))) \in Nat
<1> DEFINE N == Len(s1.options)
           l == Drecs!LastPorts(N)
<1>1. N \in Nat
  BY DrecFacts
<1>2. l \in PortLists
  <2> DEFINE S == {i \in 1..N : s1.options[i].label = "PORT" /\ (Drecs!Groupwise \/ i = 1)}
  <2>1. CASE S = {}
    BY <2>1, EmptySeq DEF Drecs!LastPorts, PortLists
  <2>2. CASE S # {}
    <3>1. Drecs!Max(S) \in S
      <4>1. S \subseteq 1..N
        OBVIOUS
      <4>2. N \in Nat /\ S # {}
        BY <1>1, <2>2
      <4> HIDE DEF S, N
      <4>3. Line!Max(S) \in S /\ Drecs!Max(S) = Line!Max(S)
        BY <4>1, <4>2, LastPlace
      <4> QED
        BY <4>3
    <3>2. l = s1.options[Drecs!Max(S)].value
      BY <2>2 DEF Drecs!LastPorts
    <3> QED
      BY <3>1, <3>2, DrecFacts
  <2> QED
    BY <2>1, <2>2
<1> HIDE DEF l
<1>3. Len(l) \in 0..Len(l)
  BY <1>2, LenProperties DEF PortLists
<1>4. Drecs!PortsTo(l, Len(l)) \in Seq(Int)
  BY <1>2, <1>3, PortsToFacts
<1> QED
  BY <1>4, LenProperties DEF LinePorts, l

LEMMA DrecMeans ==
  ASSUME DrecInv
  PROVE  Drecs!PortsListed
<1>1. PICK n \in 0..Len(s1.options) : DrecAt(n)
  BY DEF DrecInv
<1>2. CASE s9 = "accepted"
  <2> DEFINE ports == LinePorts(Len(s1.options))
  <2>1. s3.ports = ports \/ Len(ports) >= PortModulus
    BY <1>1, <1>2 DEF DrecAt
  <2>2. ASSUME Len(ports) < PortModulus PROVE ~(Len(ports) >= PortModulus)
    <3>1. Len(ports) \in Nat /\ PortModulus \in Nat
      BY LinePortsFinite, LineAssumption DEF DrecInv
    <3> HIDE DEF ports
    <3> QED
      BY <2>2, <3>1
  <2> QED
    BY <2>1, <2>2 DEF LinePorts, DrecInv, Drecs!PortsListed
<1> QED
  BY <1>2 DEF DrecInv, Drecs!PortsListed

LEMMA LineKept ==
  ASSUME LineInv, UNCHANGED <<s1, s2, s3, s4, s5>>
  PROVE  LineInv'
<1>1. PICK n \in 0..Len(s1.options) : LineAt(n)
  BY DEF LineInv
<1>2. Reads(s3, n) => Reads(s3, n)'
  BY DEF Reads, PlainOf, ListsOf, SizesOf, NamedTo, ListingTo, Lists
<1>3. LineAt(n)'
  BY <1>1, <1>2 DEF LineAt
<1> QED
  BY <1>3 DEF LineInv

LEMMA DrecKept ==
  ASSUME DrecInv, UNCHANGED <<s1, s2, s3, s4, s5, s6, s7, s8, s9>>
  PROVE  DrecInv'
<1>1. PICK n \in 0..Len(s1.options) : DrecAt(n)
  BY DEF DrecInv
<1>2. LinePorts(n)' = LinePorts(n) /\ Drecs!Groupwise' = Drecs!Groupwise
  BY LinePortsAsBefore
<1>3. DrecAt(n)'
  BY <1>1, <1>2 DEF DrecAt, LeftAt, Listing, Writing, ListAt, Written
<1> QED
  BY <1>3 DEF DrecInv

LEMMA LinesInvariance ==
  MCSpec => []((part = "events" => LineInv) /\ (part = "drecs" => DrecInv))
<1> DEFINE all == <<part, vars, pace, others>>
           I == (part = "events" => LineInv) /\ (part = "drecs" => DrecInv)
<1>1. MCInit => I
  BY LineBegins, DrecBegins DEF MCInit, OtherParts
<1>2. I /\ [MCNext]_all => I'
  <2> SUFFICES ASSUME I, [MCNext]_all PROVE I'
    OBVIOUS
  <2>1. CASE part = "events" /\ Line!Next /\ UNCHANGED part
    BY <2>1, LineStep
  <2>2. CASE part = "drecs" /\ Drecs!Next /\ UNCHANGED part
    BY <2>2, DrecStep
  <2>3. CASE part \notin {"events", "drecs"} /\ UNCHANGED part
    BY <2>3
  <2>4. CASE UNCHANGED all
    <3>1. UNCHANGED <<part, s1, s2, s3, s4, s5, s6, s7, s8, s9>>
      BY <2>4 DEF others
    <3> QED
      BY <3>1, LineKept, DrecKept
  <2> QED
    BY <2>1, <2>2, <2>3, <2>4 DEF MCNext, Intervals, Scheduling
<1> QED
  BY <1>1, <1>2, PTL DEF MCSpec

\* MgenEvent::InitFromString, DrecEvent::InitFromString and CreatePortArray: for any
\* accepted line, whatever its options and in whatever order, every field has what the
\* last option for it says, every flow the status that the last list that names it
\* gave it, the sizes of a pattern fit the protocol, and the ports are those of the
\* last list, one by one, with room for each, unless these are more than count counts.  What a single word stands for is left
\* out: a word is looked up letter by letter, and TLC looks up every word there is.
THEOREM LinesMeanWhatTheySay == MCSpec => [](part # "words" => LinesMeant)
<1>1. (part = "events" => LineInv) /\ (part = "drecs" => DrecInv)
        => (part # "words" => LinesMeant)
  BY LineMeans, DrecMeans DEF LinesMeant
<1> QED
  BY <1>1, LinesInvariance, PTL
(***************************************************************************)
(* What is read of the commands (CommandInput, which is Input in          *)
(* MCControl).                                                             *)
(***************************************************************************)
\* What comes before e in s has the last of its delimiters at p.
LastEnd(s, p, e) ==
  /\ p \in 0..(e - 1)
  /\ p > 0 => s[p] = "end"
  /\ \A j \in (p + 1)..(e - 1) : s[j] # "end"

\* What there is room for of the characters between p and e.
Cut(p, e) == IF e - (p + 1) > MaxCommand THEN p + MaxCommand ELSE e - 1

\* There is always a last one, or none.
LEMMA LastEndExists ==
  ASSUME NEW C, NEW s \in Seq(C), NEW e \in Nat, e >= 1, e <= Len(s) + 1
  PROVE  \E p : LastEnd(s, p, e)
<1> DEFINE Behind == {m \in 1..e : e - m = 0 \/ s[e - m] = "end"}
<1>1. Behind \subseteq Nat /\ e \in Behind
  OBVIOUS
<1> HIDE DEF Behind
<1>2. PICK m \in Behind : \A k \in Behind : m <= k
  BY <1>1, LeastOf
<1>3. m \in 1..e /\ (e - m = 0 \/ s[e - m] = "end") /\ e \in Nat
  BY <1>2 DEF Behind
<1>4. ASSUME NEW j \in (e - m + 1)..(e - 1)
      PROVE  s[j] # "end"
  <2>1. e - j \in 1..e /\ e - j < m /\ e - (e - j) = j
    BY <1>3
  <2>2. e - j \notin Behind
    BY <1>2, <1>3, <2>1
  <2> QED
    BY <2>1, <2>2 DEF Behind
<1> DEFINE p == e - m
<1>5. p \in 0..(e - 1) /\ (p > 0 => s[p] = "end")
  BY <1>3
<1>6. LastEnd(s, p, e)
  BY <1>4, <1>5 DEF LastEnd
<1> QED
  BY <1>6

\* What a delimiter ends is what follows the one before it.
LEMMA LineIs ==
  ASSUME NEW C, NEW s \in Seq(C), NEW e \in Nat, e >= 1, e <= Len(s) + 1, NEW p, LastEnd(s, p, e)
  PROVE  Input!LineBefore(s, e) = SubSeq(s, p + 1, Cut(p, e))
<1> DEFINE ends == {i \in DOMAIN s : s[i] = "end"}
           Chosen(i) == i \in ends \cup {0} /\ i < e /\ \A j \in ends : j < e => j <= i
           first == CHOOSE i \in ends \cup {0} : i < e /\ \A j \in ends : j < e => j <= i
<1>1. p \in Nat /\ e \in Nat /\ p < e /\ Len(s) \in Nat /\ DOMAIN s = 1..Len(s)
  BY DEF LastEnd
<1>2. \A j \in ends : j \in Nat /\ j >= 1 /\ s[j] = "end"
  BY <1>1
<1>3. p \in ends \cup {0}
  BY <1>1 DEF LastEnd
<1>4. \A j \in ends : j < e => j <= p
  <2> SUFFICES ASSUME NEW j \in ends, j < e, ~(j <= p) PROVE FALSE
    OBVIOUS
  <2>1. j \in (p + 1)..(e - 1)
    BY <1>1, <1>2
  <2> QED
    BY <1>2, <2>1 DEF LastEnd
<1> HIDE DEF ends
<1>5. first \in ends \cup {0} /\ first < e /\ \A j \in ends : j < e => j <= first
  BY <1>1, <1>3, <1>4
<1>6. first = p
  <2> HIDE DEF first
  <2>1. first \in Nat
    BY <1>2, <1>5
  <2>2. first <= p
    BY <1>1, <1>4, <1>5, <2>1
  <2>3. p <= first
    BY <1>1, <1>3, <1>5, <2>1
  <2> QED
    BY <1>1, <2>1, <2>2, <2>3
<1>7. Input!LineBefore(s, e) =
        SubSeq(s, 1 + first,
               IF e - (1 + first) > MaxCommand THEN 1 + first + MaxCommand - 1 ELSE e - 1)
  BY DEF Input!LineBefore, ends
<1> HIDE DEF first
<1>8. 1 + p = p + 1 /\ p + 1 + MaxCommand - 1 = p + MaxCommand
  BY <1>1, ControlAssumption
<1> QED
  BY <1>6, <1>7, <1>8 DEF Cut

LEMMA SubSame ==
  ASSUME NEW C, NEW r \in Seq(C), NEW c \in C, NEW a \in Nat, a >= 1, NEW b \in Int, b <= Len(r)
  PROVE  SubSeq(Append(r, c), a, b) = SubSeq(r, a, b)
BY SMT

\* What comes later does not change it.
LEMMA LineSame ==
  ASSUME NEW C, NEW r \in Seq(C), NEW c \in C, NEW e \in Nat, e >= 1, e <= Len(r) + 1
  PROVE  Input!LineBefore(Append(r, c), e) = Input!LineBefore(r, e)
<1>1. PICK p : LastEnd(r, p, e)
  BY LastEndExists
<1> DEFINE s == Append(r, c)
<1>2. /\ s \in Seq(C) /\ Len(s) = Len(r) + 1 /\ Len(r) \in Nat /\ e <= Len(s) + 1
      /\ \A j \in 1..Len(r) : s[j] = r[j]
  OBVIOUS
<1> HIDE DEF s
<1>3. p \in Nat /\ p < e /\ e \in Nat /\ e <= Len(r) + 1
  BY <1>1, <1>2 DEF LastEnd
<1>4. LastEnd(s, p, e)
  <2>1. p > 0 => s[p] = "end"
    BY <1>1, <1>2, <1>3 DEF LastEnd
  <2>2. \A j \in (p + 1)..(e - 1) : s[j] # "end"
    BY <1>1, <1>2, <1>3 DEF LastEnd
  <2> QED
    BY <1>1, <2>1, <2>2 DEF LastEnd
<1>5. Cut(p, e) \in Int /\ Cut(p, e) <= Len(r)
  BY <1>2, <1>3, ControlAssumption DEF Cut
<1>6. SubSeq(s, p + 1, Cut(p, e)) = SubSeq(r, p + 1, Cut(p, e))
  BY <1>3, <1>5, SubSame DEF s
<1>7. Input!LineBefore(s, e) = SubSeq(s, p + 1, Cut(p, e))
  BY <1>2, <1>4, LineIs
<1>8. Input!LineBefore(r, e) = SubSeq(r, p + 1, Cut(p, e))
  BY <1>1, LineIs
<1> QED
  BY <1>6, <1>7, <1>8 DEF s

\* k is begun, and x were executed, when r was read.
WasRead(r, k, x) ==
  /\ \E p : LastEnd(r, p, Len(r) + 1) /\ k = SubSeq(r, p + 1, Cut(p, Len(r) + 1))
  /\ Len(x) = Cardinality(Input!FullEnds(r))
  /\ \A e \in Input!FullEnds(r) :
       x[Cardinality({d \in Input!FullEnds(r) : d <= e})] = Input!Split(Input!LineBefore(r, e))

\* A character that ends nothing is put in where there is room.
LEMMA LetterTaken ==
  ASSUME NEW C, NEW r \in Seq(C), NEW c \in C, c # "end", NEW k, NEW x, WasRead(r, k, x)
  PROVE  WasRead(Append(r, c), IF Len(k) < MaxCommand THEN Append(k, c) ELSE k, x)
<1> DEFINE n == Len(r) + 1
           s == Append(r, c)
           k2 == IF Len(k) < MaxCommand THEN Append(k, c) ELSE k
<1>1. /\ s \in Seq(C) /\ Len(s) = n /\ n \in Nat /\ n >= 1 /\ s[n] = c /\ DOMAIN s = 1..n
      /\ DOMAIN r = 1..(n - 1) /\ Len(r) = n - 1 /\ \A j \in 1..(n - 1) : s[j] = r[j]
  OBVIOUS
<1>2. PICK p : LastEnd(r, p, n) /\ k = SubSeq(r, p + 1, Cut(p, n))
  BY DEF WasRead
<1>3. p \in Nat /\ p < n /\ Cut(p, n) \in Int /\ Cut(p, n) < n
  BY <1>1, <1>2, ControlAssumption DEF LastEnd, Cut
<1>4. LastEnd(s, p, n + 1)
  <2> HIDE DEF s, n
  <2>1. p > 0 => s[p] = "end"
    BY <1>1, <1>2, <1>3 DEF LastEnd
  <2>2. ASSUME NEW j \in (p + 1)..((n + 1) - 1) PROVE s[j] # "end"
    <3>1. j = n \/ j \in (p + 1)..(n - 1)
      BY <1>1, <1>3
    <3>2. j \in (p + 1)..(n - 1) => r[j] # "end" /\ s[j] = r[j]
      BY <1>1, <1>2, <1>3 DEF LastEnd
    <3> QED
      BY <1>1, <3>1, <3>2
  <2>3. p \in 0..((n + 1) - 1)
    BY <1>1, <1>3
  <2>4. \A j \in (p + 1)..((n + 1) - 1) : s[j] # "end"
    BY <2>2
  <2> QED
    BY <2>1, <2>3, <2>4 DEF LastEnd
<1>5. k2 = SubSeq(s, p + 1, Cut(p, n + 1))
  <2>1. k = SubSeq(s, p + 1, Cut(p, n))
    BY <1>1, <1>2, <1>3, SubSame
  <2>2. Len(k) = IF Cut(p, n) > p THEN Cut(p, n) - p ELSE 0
    <3> HIDE DEF n, s
    <3>1. SubSeq(s, p + 1, Cut(p, n)) \in Seq(C)
      <4>1. \A i \in (p + 1)..Cut(p, n) : s[i] \in C
        <5> SUFFICES ASSUME NEW i \in (p + 1)..Cut(p, n) PROVE s[i] \in C
          OBVIOUS
        <5>1. i \in 1..Len(s)
          BY <1>1, <1>3
        <5> QED
          BY <1>1, <5>1
      <4> QED
        BY <1>1, <1>3, <4>1
    <3>2. Len(SubSeq(s, p + 1, Cut(p, n))) = IF Cut(p, n) > p THEN Cut(p, n) - p ELSE 0
      BY <1>1, <1>3
    <3> QED
      BY <2>1, <3>2
  <2> HIDE DEF s, n
  <2>3. CASE n - (p + 1) < MaxCommand
    <3>1. Cut(p, n) = n - 1 /\ Cut(p, n + 1) = n /\ n - 1 >= p
      BY <1>1, <1>3, <2>3, ControlAssumption DEF Cut
    <3>2. Len(k) < MaxCommand
      BY <1>1, <1>3, <2>2, <2>3, <3>1
    <3>3. SubSeq(s, p + 1, n) = Append(SubSeq(s, p + 1, n - 1), s[n])
      BY <1>1, <1>3
    <3> QED
      BY <1>1, <2>1, <3>1, <3>2, <3>3
  <2>4. CASE ~(n - (p + 1) < MaxCommand)
    <3>1. Cut(p, n) = p + MaxCommand /\ Cut(p, n + 1) = p + MaxCommand
      BY <1>1, <1>3, <2>4, ControlAssumption DEF Cut
    <3>2. ~(Len(k) < MaxCommand)
      BY <1>1, <1>3, <2>2, <3>1, ControlAssumption
    <3> QED
      BY <2>1, <3>1, <3>2
  <2> QED
    BY <2>3, <2>4
<1>6. \A e \in 1..(n - 1) : Input!LineBefore(s, e) = Input!LineBefore(r, e)
  BY <1>1, LineSame
<1>7. Input!FullEnds(s) = Input!FullEnds(r)
  <2> HIDE DEF s, n
  <2>1. ASSUME NEW e \in Input!FullEnds(s) PROVE e \in Input!FullEnds(r)
    <3>1. e \in 1..n /\ e # n
      BY <1>1, <2>1 DEF Input!FullEnds
    <3>2. e \in 1..(n - 1)
      BY <1>1, <3>1
    <3> QED
      BY <1>1, <1>6, <2>1, <3>2 DEF Input!FullEnds
  <2>2. ASSUME NEW e \in Input!FullEnds(r) PROVE e \in Input!FullEnds(s)
    <3>1. e \in 1..(n - 1) /\ e \in 1..n
      BY <1>1, <2>2 DEF Input!FullEnds
    <3> QED
      BY <1>1, <1>6, <2>2, <3>1 DEF Input!FullEnds
  <2> QED
    BY <2>1, <2>2
<1>8. \A e \in Input!FullEnds(r) : e \in 1..(n - 1)
  BY <1>1 DEF Input!FullEnds
<1> HIDE DEF s, k2, n
<1>9. \E q : LastEnd(s, q, Len(s) + 1) /\ k2 = SubSeq(s, q + 1, Cut(q, Len(s) + 1))
  BY <1>1, <1>4, <1>5
<1>10. \A e \in Input!FullEnds(s) :
         x[Cardinality({d \in Input!FullEnds(s) : d <= e})] = Input!Split(Input!LineBefore(s, e))
  BY <1>6, <1>7, <1>8 DEF WasRead
<1>11. WasRead(s, k2, x)
  BY <1>7, <1>9, <1>10 DEF WasRead
<1> QED
  BY <1>11 DEF s, k2

\* A delimiter ends a command, where there is one.
LEMMA EndTaken ==
  ASSUME NEW C, NEW r \in Seq(C), NEW c \in C, c = "end", NEW k, NEW S, NEW x \in Seq(S),
         WasRead(r, k, x), Input!Split(k) \in S
  PROVE  WasRead(Append(r, c), << >>, IF k = << >> THEN x ELSE Append(x, Input!Split(k)))
<1> DEFINE n == Len(r) + 1
           s == Append(r, c)
           x2 == IF k = << >> THEN x ELSE Append(x, Input!Split(k))
<1>1. /\ s \in Seq(C) /\ Len(s) = n /\ n \in Nat /\ n >= 1 /\ s[n] = c /\ DOMAIN s = 1..n
      /\ DOMAIN r = 1..(n - 1) /\ Len(r) = n - 1 /\ \A j \in 1..(n - 1) : s[j] = r[j]
  OBVIOUS
<1>2. PICK p : LastEnd(r, p, n) /\ k = SubSeq(r, p + 1, Cut(p, n))
  BY DEF WasRead
<1>3. p \in Nat /\ p < n /\ Cut(p, n) \in Int /\ Cut(p, n) < n
  BY <1>1, <1>2, ControlAssumption DEF LastEnd, Cut
<1>4. LastEnd(s, n, n + 1) /\ << >> = SubSeq(s, n + 1, Cut(n, n + 1))
  <2> HIDE DEF s, n
  <2>1. n + 1 - 1 = n /\ n \in 0..n /\ \A j \in (n + 1)..n : s[j] # "end"
    BY <1>1
  <2>2. LastEnd(s, n, n + 1)
    BY <1>1, <2>1 DEF LastEnd
  <2>3. Cut(n, n + 1) = n
    BY <1>1, ControlAssumption DEF Cut
  <2> QED
    BY <1>1, <2>2, <2>3
<1>5. \A e \in 1..n : Input!LineBefore(s, e) = Input!LineBefore(r, e)
  BY <1>1, LineSame
<1>6. Input!LineBefore(s, n) = k
  <2>1. n <= Len(r) + 1
    BY <1>1
  <2>2. Input!LineBefore(r, n) = k
    BY <1>1, <1>2, <2>1, LineIs
  <2> QED
    BY <1>1, <1>5, <2>2
<1> HIDE DEF s, n
<1>7. /\ \A e \in Input!FullEnds(r) : e \in Nat /\ e < n
      /\ Input!FullEnds(r) \subseteq 1..(n - 1)
  BY <1>1 DEF Input!FullEnds
<1>8. IsFiniteSet(Input!FullEnds(r))
  <2>1. IsFiniteSet(1..(n - 1))
    BY <1>1, FS_Interval
  <2> QED
    BY <1>7, <2>1, FS_Subset
<1>9. Input!FullEnds(s) = IF k = << >> THEN Input!FullEnds(r) ELSE Input!FullEnds(r) \cup {n}
  <2>1. ASSUME NEW e \in 1..(n - 1) PROVE e \in Input!FullEnds(s) <=> e \in Input!FullEnds(r)
    <3>1. e \in 1..n
      BY <1>1
    <3> QED
      BY <1>1, <1>5, <3>1 DEF Input!FullEnds
  <2>2. n \in Input!FullEnds(s) <=> k # << >>
    BY <1>1, <1>6 DEF Input!FullEnds
  <2>3. \A e \in Input!FullEnds(s) : e = n \/ e \in 1..(n - 1)
    BY <1>1 DEF Input!FullEnds
  <2>4. CASE k = << >>
    <3>1. \A e \in Input!FullEnds(s) : e \in Input!FullEnds(r)
      BY <2>1, <2>2, <2>3, <2>4
    <3>2. \A e \in Input!FullEnds(r) : e \in Input!FullEnds(s)
      BY <1>7, <2>1
    <3> QED
      BY <2>4, <3>1, <3>2
  <2>5. CASE k # << >>
    <3>1. \A e \in Input!FullEnds(s) : e \in Input!FullEnds(r) \cup {n}
      BY <2>1, <2>3
    <3>2. \A e \in Input!FullEnds(r) \cup {n} : e \in Input!FullEnds(s)
      BY <1>7, <2>1, <2>2, <2>5
    <3> QED
      BY <2>5, <3>1, <3>2
  <2> QED
    BY <2>4, <2>5
<1>10. \E q : LastEnd(s, q, Len(s) + 1) /\ << >> = SubSeq(s, q + 1, Cut(q, Len(s) + 1))
  BY <1>1, <1>4
<1>11. CASE k = << >>
  <2>1. \A e \in Input!FullEnds(r) : Input!LineBefore(s, e) = Input!LineBefore(r, e)
    BY <1>1, <1>5, <1>7
  <2>2. \A e \in Input!FullEnds(s) :
          x[Cardinality({d \in Input!FullEnds(s) : d <= e})] = Input!Split(Input!LineBefore(s, e))
    BY <1>9, <1>11, <2>1 DEF WasRead
  <2>3. WasRead(s, << >>, x)
    BY <1>9, <1>10, <1>11, <2>2 DEF WasRead
  <2> QED
    BY <1>11, <2>3 DEF s
<1>12. CASE k # << >>
  <2> DEFINE full == Input!FullEnds(r)
             y == Append(x, Input!Split(k))
  <2>1. Cardinality(full) \in Nat /\ Len(x) = Cardinality(full)
    BY <1>8, FS_CardinalityType DEF WasRead
  <2>2. Cardinality(full \cup {n}) = Cardinality(full) + 1
    <3>1. n \notin full
      BY <1>1, <1>7
    <3> QED
      BY <1>8, <3>1, FS_AddElement
  <2>3. Input!FullEnds(s) = full \cup {n}
    BY <1>9, <1>12
  <2>4. /\ Len(y) = Len(x) + 1 /\ y[Len(x) + 1] = Input!Split(k)
        /\ \A i \in 1..Len(x) : y[i] = x[i]
    OBVIOUS
  <2>5. ASSUME NEW e \in full \cup {n}
        PROVE  y[Cardinality({d \in full \cup {n} : d <= e})] = Input!Split(Input!LineBefore(s, e))
    <3>1. CASE e = n
      <4>1. {d \in full \cup {n} : d <= e} = full \cup {n}
        BY <1>1, <1>7, <3>1
      <4> HIDE DEF full, y
      <4> QED
        BY <1>6, <2>1, <2>2, <2>4, <3>1, <4>1
    <3>2. CASE e \in full
      <4> DEFINE upto == {d \in full : d <= e}
      <4>1. {d \in full \cup {n} : d <= e} = upto
        BY <1>1, <1>7, <3>2
      <4>2. e \in upto /\ upto \subseteq full
        BY <1>7, <3>2
      <4>3. IsFiniteSet(upto) /\ Cardinality(upto) \in Nat /\ Cardinality(upto) <= Cardinality(full)
        <5> HIDE DEF full, upto
        <5> QED
          BY <1>8, <4>2, FS_Subset, FS_CardinalityType DEF full
      <4>4. Cardinality(upto) # 0
        <5> HIDE DEF full, upto
        <5> QED
          BY <4>2, <4>3, FS_EmptySet
      <4>5. x[Cardinality(upto)] = Input!Split(Input!LineBefore(r, e))
        BY <3>2 DEF WasRead
      <4>6. Input!LineBefore(s, e) = Input!LineBefore(r, e)
        BY <1>1, <1>5, <1>7, <3>2
      <4> HIDE DEF upto, y
      <4>7. Cardinality(upto) \in 1..Len(x)
        BY <2>1, <4>3, <4>4
      <4> QED
        BY <2>4, <4>1, <4>5, <4>6, <4>7
    <3> QED
      BY <3>1, <3>2
  <2> HIDE DEF full, y
  <2>6. Len(y) = Cardinality(Input!FullEnds(s))
    BY <2>1, <2>2, <2>3, <2>4
  <2>7. WasRead(s, << >>, y)
    BY <1>10, <2>3, <2>5, <2>6 DEF WasRead
  <2> QED
    BY <1>12, <2>7 DEF s, y
<1> QED
  BY <1>11, <1>12

\* Whatever is executed was a command and its argument.
Executions == {Input!Split(s) : s \in Seq(Input!Characters)}

\* The inductive invariant: what is still to be read is the rest of what was written.
InputInv ==
  /\ s1 \in Seq(Input!Characters) /\ s2 \in Seq(Input!Characters)
  /\ s3 \in Seq(Input!Characters) /\ s4 \in Seq(Executions)
  /\ \E r \in Seq(Input!Characters) : s1 = r \o s2 /\ WasRead(r, s3, s4)

LEMMA InputBegins ==
  ASSUME Input!Init
  PROVE  InputInv
<1> DEFINE r == << >>
<1>1. s1 = << >> /\ s2 = << >> /\ s3 = << >> /\ s4 = << >>
  BY DEF Input!Init
<1>2. r \in Seq(Input!Characters) /\ Len(r) = 0 /\ DOMAIN r = {} /\ << >> \o << >> = r
  OBVIOUS
<1>3. Input!FullEnds(r) = {}
  BY <1>2 DEF Input!FullEnds
<1> HIDE DEF r
<1>4. LastEnd(r, 0, Len(r) + 1) /\ << >> = SubSeq(r, 0 + 1, Cut(0, Len(r) + 1))
  <2>1. Cut(0, 1) = 0
    BY ControlAssumption DEF Cut
  <2>2. LastEnd(r, 0, 1)
    BY DEF LastEnd
  <2> QED
    BY <1>2, <2>1, <2>2
<1>5. Len(<< >>) = Cardinality({})
  BY FS_EmptySet
<1>6. WasRead(r, << >>, << >>)
  BY <1>3, <1>4, <1>5 DEF WasRead
<1>7. << >> \in Seq(Executions)
  OBVIOUS
<1> QED
  BY <1>1, <1>2, <1>6, <1>7 DEF InputInv, r

LEMMA InputStep ==
  ASSUME InputInv, Input!Next
  PROVE  InputInv'
<1> DEFINE C == Input!Characters
<1>1. PICK r \in Seq(C) : s1 = r \o s2 /\ WasRead(r, s3, s4)
  BY DEF InputInv
<1>2. s1 \in Seq(C) /\ s2 \in Seq(C) /\ s3 \in Seq(C) /\ s4 \in Seq(Executions)
  BY DEF InputInv
<1>3. ASSUME NEW c \in C, Input!Write(c) PROVE InputInv'
  <2>1. s1' = Append(s1, c) /\ s2' = Append(s2, c) /\ s3' = s3 /\ s4' = s4
    BY <1>3 DEF Input!Write
  <2> HIDE DEF C
  <2>2. s1' \in Seq(C) /\ s2' \in Seq(C)
    BY <1>2, <1>3, <2>1
  <2>3. Append(r \o s2, c) = r \o Append(s2, c)
    BY <1>1, <1>2, <1>3
  <2>4. s1' = r \o s2'
    BY <1>1, <2>1, <2>3
  <2>5. WasRead(r, s3', s4')
    BY <1>1, <2>1
  <2> QED
    BY <1>1, <1>2, <2>1, <2>2, <2>4, <2>5 DEF InputInv, C
<1>4. ASSUME Input!OnCmdInputReady PROVE InputInv'
  <2> DEFINE c == Head(s2)
             s == Append(r, c)
  <2>1. s2 # << >> /\ Input!Take(c) /\ s2' = Tail(s2) /\ s1' = s1
    BY <1>4 DEF Input!OnCmdInputReady
  <2>2. c \in C /\ s2' \in Seq(C) /\ s \in Seq(C) /\ r \o s2 = s \o Tail(s2)
    <3> HIDE DEF C
    <3>1. c \in C /\ Tail(s2) \in Seq(C)
      BY <1>2, <2>1
    <3>2. r \o s2 = s \o Tail(s2)
      BY <1>1, <1>2, <2>1, <3>1
    <3> QED
      BY <1>1, <2>1, <3>1, <3>2
  <2>3. /\ s3' \in Seq(C) /\ s4' \in Seq(Executions)
        /\ WasRead(s, s3', s4')
    <3> HIDE DEF C, c
    <3>1. CASE c # "end"
      <4>1. s3' = IF Len(s3) < MaxCommand THEN Append(s3, c) ELSE s3
        BY <2>1, <3>1 DEF Input!Take
      <4>2. s4' = s4
        BY <2>1, <3>1 DEF Input!Take
      <4>3. s3' \in Seq(C)
        BY <1>2, <2>2, <4>1
      <4>4. WasRead(s, IF Len(s3) < MaxCommand THEN Append(s3, c) ELSE s3, s4)
        BY <1>1, <2>2, <3>1, LetterTaken
      <4> QED
        BY <1>2, <4>1, <4>2, <4>3, <4>4
    <3>2. CASE c = "end"
      <4>1. s3' = << >> /\ s4' = IF s3 = << >> THEN s4 ELSE Append(s4, Input!Split(s3))
        BY <2>1, <3>2 DEF Input!Take
      <4>2. Input!Split(s3) \in Executions
        BY <1>2 DEF Executions, C
      <4>3. s3' \in Seq(C)
        BY <4>1
      <4>4. s4' \in Seq(Executions)
        BY <1>2, <4>1, <4>2, AppendProperties
      <4>5. WasRead(s, << >>, IF s3 = << >> THEN s4 ELSE Append(s4, Input!Split(s3)))
        BY <1>1, <1>2, <2>2, <3>2, <4>2, EndTaken
      <4> QED
        BY <4>1, <4>3, <4>4, <4>5
    <3> QED
      BY <3>1, <3>2
  <2>4. s1' = s \o s2'
    BY <1>1, <2>1, <2>2
  <2> HIDE DEF s
  <2> QED
    BY <1>2, <2>1, <2>2, <2>3, <2>4 DEF InputInv, C
<1>5. ~Input!OnNothing
  BY DEF Input!OnNothing
<1> QED
  BY <1>3, <1>4, <1>5 DEF Input!Next

LEMMA InputMeans ==
  ASSUME InputInv
  PROVE  Input!ExecutedAsWritten
<1> DEFINE C == Input!Characters
<1>1. PICK r \in Seq(C) : s1 = r \o s2 /\ WasRead(r, s3, s4)
  BY DEF InputInv
<1>2. s1 \in Seq(C) /\ s2 \in Seq(C)
  BY DEF InputInv
<1>3. SubSeq(s1, 1, Len(s1) - Len(s2)) = r
  <2> HIDE DEF C
  <2>1. Len(s1) - Len(s2) = Len(r)
    BY <1>1, <1>2
  <2>2. SubSeq(r \o s2, 1, Len(r)) = r
    BY <1>1, <1>2
  <2> QED
    BY <1>1, <2>1, <2>2
<1> DEFINE past == SubSeq(s1, 1, Len(s1) - Len(s2))
<1>4. Len(s4) = Cardinality(Input!FullEnds(past))
  BY <1>1, <1>3 DEF WasRead
<1>5. \A e \in Input!FullEnds(past) :
        s4[Cardinality({d \in Input!FullEnds(past) : d <= e})]
          = Input!Split(Input!LineBefore(past, e))
  BY <1>1, <1>3 DEF WasRead
<1>6. Input!ExecutedAsWritten <=>
        /\ Len(s4) = Cardinality(Input!FullEnds(past))
        /\ \A e \in Input!FullEnds(past) :
             s4[Cardinality({d \in Input!FullEnds(past) : d <= e})]
               = Input!Split(Input!LineBefore(past, e))
  <2> HIDE DEF past
  <2>1. \A S : Input!Cardinality(S) = Cardinality(S)
    BY DEF Input!Cardinality, Cardinality
  <2> QED
    BY <2>1 DEF Input!ExecutedAsWritten, past
<1> QED
  BY <1>4, <1>5, <1>6
(***************************************************************************)
(* What is read of a script (ScriptReader, which is Script in MCControl).  *)
(***************************************************************************)
\* g puts the sequences of q together, one by one.
Flattens(q, g, C) ==
  /\ g \in [0..Len(q) -> Seq(C)]
  /\ g[0] = << >>
  /\ \A i \in 1..Len(q) : g[i] = g[i - 1] \o q[i]

LEMMA FlatExists ==
  ASSUME NEW C, NEW q \in Seq(Seq(C))
  PROVE  \E g : Flattens(q, g, C)
<1> DEFINE N == Len(q)
           F == [z \in Seq(C) \X (1..N) |-> z[1] \o q[z[2]]]
<1>1. N \in Nat /\ \A i \in 1..N : q[i] \in Seq(C)
  BY LenProperties, ElementOfSeq
<1>2. F \in [Seq(C) \X (1..N) -> Seq(C)]
  <2> HIDE DEF N
  <2> QED
    BY <1>1
<1>3. \A u \in Seq(C), i \in 1..N : F[<<u, i>>] = u \o q[i]
  OBVIOUS
<1>4. << >> \in Seq(C)
  OBVIOUS
<1> HIDE DEF F, N
<1>5. PICK g : Made(Seq(C), F, << >>, N, g)
  BY <1>1, <1>2, <1>4, MadeExists
<1>6. \A i \in 1..N : g[i] = g[i - 1] \o q[i]
  <2> SUFFICES ASSUME NEW i \in 1..N PROVE g[i] = g[i - 1] \o q[i]
    OBVIOUS
  <2>1. i - 1 \in 0..N
    BY <1>1
  <2>2. g[i - 1] \in Seq(C)
    BY <1>5, <2>1 DEF Made
  <2> QED
    BY <1>3, <1>5, <2>2 DEF Made
<1>7. g \in [0..N -> Seq(C)] /\ g[0] = << >>
  BY <1>5 DEF Made
<1>8. Flattens(q, g, C)
  BY <1>6, <1>7 DEF Flattens, N
<1> QED
  BY <1>8

LEMMA FlatIs ==
  ASSUME NEW C, NEW q \in Seq(Seq(C)), NEW g, Flattens(q, g, C)
  PROVE  Script!FlattenSeq(q) = g[Len(q)]
<1> DEFINE N == Len(q)
<1>1. N \in Nat /\ \A i \in 1..N : q[i] \in Seq(C)
  BY LenProperties, ElementOfSeq
<1>2. /\ g \in [0..N -> Seq(C)] /\ g[0] = << >>
      /\ \A i \in 1..N : g[i] = g[i - 1] \o q[i]
  BY DEF Flattens
<1>3. CASE N = 0
  <2>1. Script!FlattenSeq(q) = q
    BY <1>3 DEF Script!FlattenSeq
  <2>2. q = << >>
    BY <1>3, EmptySeq
  <2> QED
    BY <1>2, <1>3, <2>1, <2>2
<1>4. CASE N # 0
  <2> DEFINE f == CHOOSE f : f = [i \in 1..N |-> IF i = 1 THEN q[i] ELSE f[i - 1] \o q[i]]
  <2>1. Script!FlattenSeq(q) = f[N]
    BY <1>4 DEF Script!FlattenSeq
  <2> DEFINE h == [i \in 1..N |-> g[i]]
  <2>2. h = [i \in 1..N |-> IF i = 1 THEN q[i] ELSE h[i - 1] \o q[i]]
    <3> HIDE DEF N
    <3> SUFFICES ASSUME NEW i \in 1..N
                 PROVE  g[i] = IF i = 1 THEN q[i] ELSE h[i - 1] \o q[i]
      BY DEF h
    <3>1. i = 1 => g[i] = q[i]
      <4>1. << >> \o q[i] = q[i]
        BY <1>1
      <4>2. i = 1 => i - 1 = 0
        BY <1>1
      <4> QED
        BY <1>2, <4>1, <4>2
    <3>2. i # 1 => h[i - 1] = g[i - 1]
      BY <1>1
    <3> QED
      BY <1>2, <3>1, <3>2
  <2> HIDE DEF h
  <2>3. f = [i \in 1..N |-> IF i = 1 THEN q[i] ELSE f[i - 1] \o q[i]]
    BY <2>2
  <2> HIDE DEF f, N
  <2>4. \A i \in 1..N : f[i] = IF i = 1 THEN q[i] ELSE f[i - 1] \o q[i]
    BY <2>3
  <2> DEFINE Off == {i \in 1..N : f[i] # g[i]}
  <2>5. ASSUME Off # {} PROVE FALSE
    <3>1. Off \subseteq Nat
      BY <1>1
    <3> HIDE DEF Off
    <3>2. PICK i \in Off : \A j \in Off : i <= j
      BY <2>5, <3>1, LeastOf
    <3>3. i \in 1..N /\ f[i] # g[i]
      BY <3>2 DEF Off
    <3>4. i = 1 => f[i] = g[i]
      <4>1. << >> \o q[i] = q[i]
        BY <1>1, <3>3
      <4>2. i = 1 => i - 1 = 0
        BY <1>1
      <4> QED
        BY <1>2, <2>4, <3>3, <4>1, <4>2
    <3>5. i # 1 => f[i] = g[i]
      <4> HAVE i # 1
      <4>1. i - 1 \in 1..N /\ ~(i <= i - 1)
        BY <1>1, <3>3
      <4>2. f[i - 1] = g[i - 1]
        BY <3>2, <4>1 DEF Off
      <4> QED
        BY <1>2, <2>4, <3>3, <4>2
    <3> QED
      BY <3>3, <3>4, <3>5
  <2>6. f[N] = g[N]
    <3>1. N \in 1..N
      BY <1>1, <1>4
    <3> QED
      BY <2>5, <3>1
  <2> QED
    BY <2>1, <2>6 DEF N
<1> QED
  BY <1>3, <1>4

LEMMA CutInTwo ==
  ASSUME NEW C, NEW s \in Seq(C), NEW m \in 0..Len(s)
  PROVE  /\ SubSeq(s, 1, m) \in Seq(C) /\ Len(SubSeq(s, 1, m)) = m
         /\ \A i \in 1..m : SubSeq(s, 1, m)[i] = s[i]
         /\ SubSeq(s, m + 1, Len(s)) \in Seq(C) /\ Len(SubSeq(s, m + 1, Len(s))) = Len(s) - m
         /\ \A i \in 1..(Len(s) - m) : SubSeq(s, m + 1, Len(s))[i] = s[m + i]
         /\ SubSeq(s, 1, m) \o SubSeq(s, m + 1, Len(s)) = s
<1> DEFINE a == SubSeq(s, 1, m)
           b == SubSeq(s, m + 1, Len(s))
<1>1. Len(s) \in Nat /\ m \in Nat /\ m <= Len(s) /\ \A i \in 1..Len(s) : s[i] \in C
  BY LenProperties, ElementOfSeq
<1>2. a = [i \in 1..m |-> s[i]]
  BY <1>1
<1>3. b = [i \in 1..(Len(s) - m) |-> s[m + i]]
  BY <1>1
<1> HIDE DEF a, b
<1>4. a \in Seq(C) /\ Len(a) = m
  <2>1. a \in [1..m -> C]
    BY <1>1, <1>2
  <2> QED
    BY <1>1, <2>1
<1>5. b \in Seq(C) /\ Len(b) = Len(s) - m
  <2>1. \A i \in 1..(Len(s) - m) : m + i \in 1..Len(s)
    BY <1>1
  <2>2. b \in [1..(Len(s) - m) -> C]
    BY <1>1, <1>3, <2>1
  <2> QED
    BY <1>1, <2>2
<1>6. a \o b \in Seq(C) /\ Len(a \o b) = Len(s)
  BY <1>1, <1>4, <1>5
<1>7. ASSUME NEW i \in 1..Len(s) PROVE (a \o b)[i] = s[i]
  <2>1. CASE i <= m
    <3>1. (a \o b)[i] = a[i]
      BY <1>1, <1>4, <1>5, <1>7, <2>1
    <3> QED
      BY <1>1, <1>2, <1>7, <2>1, <3>1
  <2>2. CASE ~(i <= m)
    <3>1. (a \o b)[i] = b[i - m]
      BY <1>1, <1>4, <1>5, <1>7, <2>2
    <3>2. i - m \in 1..(Len(s) - m) /\ m + (i - m) = i
      BY <1>1, <1>7, <2>2
    <3> QED
      BY <1>3, <3>1, <3>2
  <2> QED
    BY <2>1, <2>2
<1>8. a \o b = s
  BY <1>6, <1>7, SeqEqual
<1> QED
  BY <1>2, <1>3, <1>4, <1>5, <1>8 DEF a, b

\* What two of them give, one after the other.
LEMMA FlatJoin ==
  ASSUME NEW C, NEW q \in Seq(Seq(C)), NEW r \in Seq(Seq(C))
  PROVE  /\ Script!FlattenSeq(q \o r) = Script!FlattenSeq(q) \o Script!FlattenSeq(r)
         /\ Script!FlattenSeq(q) \in Seq(C)
<1>1. PICK g : Flattens(q, g, C)
  BY FlatExists
<1>2. PICK h : Flattens(r, h, C)
  BY FlatExists
<1> DEFINE N == Len(q)
           M == Len(r)
           k == [i \in 0..(N + M) |-> IF i <= N THEN g[i] ELSE g[N] \o h[i - N]]
<1>3. /\ N \in Nat /\ M \in Nat /\ q \o r \in Seq(Seq(C)) /\ Len(q \o r) = N + M
      /\ \A i \in 1..N : (q \o r)[i] = q[i]
      /\ \A i \in (N + 1)..(N + M) : (q \o r)[i] = r[i - N]
      /\ \A i \in 1..M : r[i] \in Seq(C)
  BY LenProperties, ConcatProperties, ElementOfSeq
<1>4. /\ g \in [0..N -> Seq(C)] /\ g[0] = << >>
      /\ \A i \in 1..N : g[i] = g[i - 1] \o q[i]
  BY <1>1 DEF Flattens
<1>5. /\ h \in [0..M -> Seq(C)] /\ h[0] = << >>
      /\ \A i \in 1..M : h[i] = h[i - 1] \o r[i]
  BY <1>2 DEF Flattens
<1> HIDE DEF N, M
<1>6. g[N] \in Seq(C) /\ g[N] \o << >> = g[N]
  BY <1>3, <1>4
<1>7. k \in [0..(N + M) -> Seq(C)]
  <2> SUFFICES ASSUME NEW i \in 0..(N + M)
               PROVE  (IF i <= N THEN g[i] ELSE g[N] \o h[i - N]) \in Seq(C)
    OBVIOUS
  <2>1. CASE i <= N
    BY <1>3, <1>4, <2>1
  <2>2. CASE ~(i <= N)
    <3>1. i - N \in 0..M
      BY <1>3, <2>2
    <3> QED
      BY <1>5, <1>6, <2>2, <3>1
  <2> QED
    BY <2>1, <2>2
<1>8. \A i \in 0..N : k[i] = g[i]
  BY <1>3
<1>9. \A i \in 0..M : k[N + i] = g[N] \o h[i]
  <2> SUFFICES ASSUME NEW i \in 0..M PROVE k[N + i] = g[N] \o h[i]
    OBVIOUS
  <2>1. CASE i = 0
    <3>1. N + i = N /\ N \in 0..N
      BY <1>3, <2>1
    <3> HIDE DEF k
    <3> QED
      BY <1>5, <1>6, <1>8, <2>1, <3>1
  <2>2. CASE i # 0
    <3>1. N + i \in 0..(N + M) /\ ~(N + i <= N) /\ (N + i) - N = i
      BY <1>3, <2>2
    <3> QED
      BY <3>1
  <2> QED
    BY <2>1, <2>2
<1> HIDE DEF k
<1>10. ASSUME NEW i \in 1..(N + M) PROVE k[i] = k[i - 1] \o (q \o r)[i]
  <2>1. CASE i <= N
    <3>1. i \in 1..N /\ i \in 0..N /\ i - 1 \in 0..N
      BY <1>3, <2>1
    <3> QED
      BY <1>3, <1>4, <1>8, <3>1
  <2>2. CASE ~(i <= N)
    <3> DEFINE j == i - N
    <3>1. /\ j \in 1..M /\ j \in 0..M /\ j - 1 \in 0..M /\ i = N + j /\ i - 1 = N + (j - 1)
          /\ i \in (N + 1)..(N + M)
      BY <1>3, <2>2
    <3> HIDE DEF j
    <3>2. k[i] = g[N] \o (h[j - 1] \o r[j])
      BY <1>5, <1>9, <3>1
    <3>3. k[i - 1] = g[N] \o h[j - 1]
      BY <1>9, <3>1
    <3>4. (q \o r)[i] = r[j]
      BY <1>3, <3>1 DEF j
    <3>5. h[j - 1] \in Seq(C) /\ r[j] \in Seq(C)
      BY <1>3, <1>5, <3>1
    <3>6. (g[N] \o h[j - 1]) \o r[j] = g[N] \o (h[j - 1] \o r[j])
      <4>2. g[N] \in Seq(C)
        BY <1>6
      <4> DEFINE u == g[N]
                 v == h[j - 1]
                 w == r[j]
      <4>3. u \in Seq(C) /\ v \in Seq(C) /\ w \in Seq(C)
        BY <3>5, <4>2
      <4> HIDE DEF u, v, w
      <4>4. (u \o v) \o w = u \o (v \o w)
        BY <4>3, SMT
      <4> QED
        BY <4>4 DEF u, v, w
    <3> QED
      BY <3>2, <3>3, <3>4, <3>6
  <2> QED
    BY <2>1, <2>2
<1>11. k[0] = << >>
  BY <1>3, <1>4, <1>8
<1>12. Flattens(q \o r, k, C)
  BY <1>3, <1>7, <1>10, <1>11 DEF Flattens
<1>13. Script!FlattenSeq(q \o r) = k[N + M]
  BY <1>3, <1>12, FlatIs
<1>14. Script!FlattenSeq(q) = g[N] /\ Script!FlattenSeq(r) = h[M]
  BY <1>1, <1>2, FlatIs DEF N, M
<1>15. M \in 0..M
  BY <1>3
<1> QED
  BY <1>6, <1>9, <1>13, <1>14, <1>15

\* The characters that are kept of s, each alone.
Apart(s, S) == [i \in DOMAIN s |-> IF s[i] \in S THEN <<s[i]>> ELSE << >>]

LEMMA ApartIs ==
  ASSUME NEW C, NEW s \in Seq(C), NEW S
  PROVE  /\ Apart(s, S) \in Seq(Seq(C)) /\ Len(Apart(s, S)) = Len(s)
         /\ \A i \in 1..Len(s) : Apart(s, S)[i] = IF s[i] \in S THEN <<s[i]>> ELSE << >>
         /\ Script!Only(s, S) = Script!FlattenSeq(Apart(s, S))
<1> DEFINE a == Apart(s, S)
<1>1. Len(s) \in Nat /\ DOMAIN s = 1..Len(s)
  BY LenProperties
<1>2. a = [i \in 1..Len(s) |-> IF s[i] \in S THEN <<s[i]>> ELSE << >>]
  BY <1>1 DEF Apart
<1>3. \A i \in 1..Len(s) : <<s[i]>> \in Seq(C) /\ << >> \in Seq(C)
  BY <1>1
<1>4. a \in [1..Len(s) -> Seq(C)]
  BY <1>2, <1>3
<1> HIDE DEF a
<1>5. a \in Seq(Seq(C)) /\ Len(a) = Len(s)
  BY <1>1, <1>4
<1>6. \A i \in 1..Len(s) : a[i] = IF s[i] \in S THEN <<s[i]>> ELSE << >>
  BY <1>2
<1>7. Script!Only(s, S) = Script!FlattenSeq(a)
  BY DEF Script!Only, Apart, a
<1> QED
  BY <1>5, <1>6, <1>7 DEF a

\* What is kept of one sequence and another after it.
Linked(s, t) == s \o t

LEMMA OnlyLinked ==
  ASSUME NEW C, NEW s \in Seq(C), NEW t \in Seq(C), NEW S
  PROVE  /\ Script!Only(Linked(s, t), S) = Linked(Script!Only(s, S), Script!Only(t, S))
         /\ Script!Only(s, S) \in Seq(C)
<1> DEFINE a == Apart(s, S)
           b == Apart(t, S)
           d == Apart(s \o t, S)
<1>1. s \o t \in Seq(C) /\ Len(s \o t) = Len(s) + Len(t) /\ Len(s) \in Nat /\ Len(t) \in Nat
  OBVIOUS
<1>2. /\ a \in Seq(Seq(C)) /\ Len(a) = Len(s)
      /\ \A i \in 1..Len(s) : a[i] = IF s[i] \in S THEN <<s[i]>> ELSE << >>
      /\ Script!Only(s, S) = Script!FlattenSeq(a)
  BY ApartIs
<1>3. /\ b \in Seq(Seq(C)) /\ Len(b) = Len(t)
      /\ \A i \in 1..Len(t) : b[i] = IF t[i] \in S THEN <<t[i]>> ELSE << >>
      /\ Script!Only(t, S) = Script!FlattenSeq(b)
  BY ApartIs
<1>4. /\ d \in Seq(Seq(C)) /\ Len(d) = Len(s \o t)
      /\ \A i \in 1..Len(s \o t) : d[i] = IF (s \o t)[i] \in S THEN <<(s \o t)[i]>> ELSE << >>
      /\ Script!Only(s \o t, S) = Script!FlattenSeq(d)
  BY <1>1, ApartIs
<1> HIDE DEF a, b, d
<1>5. d = a \o b
  <2>1. a \o b \in Seq(Seq(C)) /\ Len(a \o b) = Len(a) + Len(b)
    BY <1>2, <1>3, ConcatProperties
  <2>2. ASSUME NEW i \in 1..Len(d) PROVE d[i] = (a \o b)[i]
    <3>1. i \in Nat /\ i >= 1 /\ i <= Len(s) + Len(t) /\ i \in 1..Len(s \o t)
      BY <1>1, <1>4, <2>2
    <3>2. CASE i <= Len(s)
      <4>1. (s \o t)[i] = s[i] /\ (a \o b)[i] = a[i] /\ i \in 1..Len(s)
        BY <1>1, <1>2, <1>3, <3>1, <3>2
      <4> QED
        BY <1>2, <1>4, <3>1, <4>1
    <3>3. CASE ~(i <= Len(s))
      <4>1. /\ (s \o t)[i] = t[i - Len(s)] /\ (a \o b)[i] = b[i - Len(s)]
            /\ i - Len(s) \in 1..Len(t)
        BY <1>1, <1>2, <1>3, <3>1, <3>3
      <4> QED
        BY <1>3, <1>4, <3>1, <4>1
    <3> QED
      BY <3>2, <3>3
  <2>3. Len(d) = Len(a \o b)
    BY <1>1, <1>2, <1>3, <1>4, <2>1
  <2> QED
    BY <1>4, <2>1, <2>2, <2>3, SeqEqual
<1>6. /\ Script!FlattenSeq(a \o b) = Script!FlattenSeq(a) \o Script!FlattenSeq(b)
      /\ Script!FlattenSeq(a) \in Seq(C)
  BY <1>2, <1>3, FlatJoin
<1>7. Script!Only(s \o t, S) = Script!Only(s, S) \o Script!Only(t, S)
  BY <1>2, <1>3, <1>4, <1>5, <1>6
<1> QED
  BY <1>2, <1>6, <1>7 DEF Linked

LEMMA OnlyJoin ==
  ASSUME NEW C, NEW s \in Seq(C), NEW t \in Seq(C), NEW S
  PROVE  /\ Script!Only(s \o t, S) = Script!Only(s, S) \o Script!Only(t, S)
         /\ Script!Only(s, S) \in Seq(C)
<1>1. /\ Script!Only(Linked(s, t), S) = Linked(Script!Only(s, S), Script!Only(t, S))
      /\ Script!Only(s, S) \in Seq(C)
  BY OnlyLinked
<1> QED
  BY <1>1 DEF Linked

LEMMA OnlyNone ==
  ASSUME NEW C, NEW s \in Seq(C), NEW S, \A i \in 1..Len(s) : s[i] \notin S
  PROVE  Script!Only(s, S) = << >>
<1> DEFINE a == Apart(s, S)
           g == [i \in 0..Len(a) |-> << >>]
<1>1. /\ a \in Seq(Seq(C)) /\ Len(a) = Len(s)
      /\ \A i \in 1..Len(s) : a[i] = << >>
      /\ Script!Only(s, S) = Script!FlattenSeq(a)
  <2>1. \A i \in 1..Len(s) : a[i] = IF s[i] \in S THEN <<s[i]>> ELSE << >>
    BY ApartIs
  <2>2. \A i \in 1..Len(s) : a[i] = << >>
    BY <2>1
  <2> QED
    BY <2>2, ApartIs
<1> HIDE DEF a
<1>2. Len(a) \in Nat /\ << >> \in Seq(C) /\ << >> \o << >> = << >>
  BY <1>1
<1>3. g \in [0..Len(a) -> Seq(C)] /\ g[0] = << >> /\ \A i \in 0..Len(a) : g[i] = << >>
  BY <1>2
<1> HIDE DEF g
<1>4. \A i \in 1..Len(a) : g[i] = g[i - 1] \o a[i]
  <2> SUFFICES ASSUME NEW i \in 1..Len(a) PROVE g[i] = g[i - 1] \o a[i]
    OBVIOUS
  <2>1. i \in 0..Len(a) /\ i - 1 \in 0..Len(a)
    BY <1>2
  <2> QED
    BY <1>1, <1>2, <1>3, <2>1
<1>5. Flattens(a, g, C)
  BY <1>3, <1>4 DEF Flattens
<1>6. Script!FlattenSeq(a) = g[Len(a)] /\ Len(a) \in 0..Len(a)
  BY <1>1, <1>2, <1>5, FlatIs
<1> QED
  BY <1>1, <1>3, <1>6

LEMMA OnlyOne ==
  ASSUME NEW C, NEW c \in C, NEW S, c \in S
  PROVE  Script!Only(<<c>>, S) = <<c>>
<1> DEFINE s == <<c>>
           a == Apart(s, S)
           g == [i \in 0..1 |-> IF i = 0 THEN << >> ELSE <<c>>]
<1>1. s \in Seq(C) /\ Len(s) = 1 /\ s[1] = c
  OBVIOUS
<1> HIDE DEF s
<1>2. /\ a \in Seq(Seq(C)) /\ Len(a) = 1 /\ a[1] = <<c>>
      /\ Script!Only(s, S) = Script!FlattenSeq(a)
  <2>1. 1 \in 1..1
    OBVIOUS
  <2> HIDE DEF a
  <2>2. /\ a \in Seq(Seq(C)) /\ Len(a) = Len(s)
        /\ \A i \in 1..Len(s) : a[i] = IF s[i] \in S THEN <<s[i]>> ELSE << >>
        /\ Script!Only(s, S) = Script!FlattenSeq(a)
    BY <1>1, ApartIs DEF a
  <2> QED
    BY <1>1, <2>1, <2>2
<1> HIDE DEF a
<1>3. g \in [0..1 -> Seq(C)] /\ g[0] = << >> /\ g[1] = <<c>>
  BY <1>1 DEF s
<1> HIDE DEF g
<1>4. \A i \in 1..1 : g[i] = g[i - 1] \o a[i]
  <2>1. << >> \o <<c>> = <<c>>
    BY <1>1 DEF s
  <2> QED
    BY <1>2, <1>3, <2>1
<1>5. Flattens(a, g, C)
  BY <1>2, <1>3, <1>4 DEF Flattens
<1> QED
  BY <1>2, <1>3, <1>5, FlatIs DEF s

\* A line is what comes before the first end, and the rest what comes after it.
LEMMA FirstEndIs ==
  ASSUME NEW s \in Seq(Script!Characters), Script!Ended(s)
  PROVE  \E n \in 1..Len(s) :
           /\ Script!FirstEnd(s) = n /\ s[n] = "end" /\ \A j \in 1..(n - 1) : s[j] # "end"
<1> DEFINE Ends == {i \in 1..Len(s) : s[i] = "end"}
<1>1. Len(s) \in Nat /\ DOMAIN s = 1..Len(s)
  BY LenProperties
<1>2. Ends \subseteq Nat /\ Ends # {}
  BY <1>1 DEF Script!Ended
<1> HIDE DEF Ends
<1>3. PICK n \in Ends : \A j \in Ends : n <= j
  BY <1>2, LeastOf
<1>4. n \in 1..Len(s) /\ s[n] = "end"
  BY <1>3 DEF Ends
<1>5. ASSUME NEW j \in 1..(n - 1) PROVE s[j] # "end"
  <2>1. j \in 1..Len(s) /\ ~(n <= j)
    BY <1>1, <1>4, <1>5
  <2> QED
    BY <1>3, <2>1 DEF Ends
<1> DEFINE m == CHOOSE i \in DOMAIN s : s[i] = "end" /\ \A j \in 1..(i - 1) : s[j] # "end"
<1>6. m \in DOMAIN s /\ s[m] = "end" /\ \A j \in 1..(m - 1) : s[j] # "end"
  BY <1>1, <1>4, <1>5
<1>7. Script!FirstEnd(s) = m
  BY DEF Script!FirstEnd
<1> HIDE DEF m
<1> QED
  BY <1>1, <1>6, <1>7

\* What a line is left of when its padding is skipped has all its letters.
LEMMA StrippedKeeps ==
  ASSUME NEW s \in Seq(Script!Characters), NEW S, "space" \notin S
  PROVE  /\ Script!Stripped(s) \in Seq(Script!Characters)
         /\ Script!Only(Script!Stripped(s), S) = Script!Only(s, S)
<1> DEFINE Kept1 == {i \in DOMAIN s : i = 1 \/ s[i] # "space"}
           T == {Len(s) - x : x \in Kept1 \cup {0}}
           m == CHOOSE i \in Kept1 \cup {0} : \A j \in Kept1 : j <= i
           a == SubSeq(s, 1, m)
           b == SubSeq(s, m + 1, Len(s))
<1>1. Len(s) \in Nat /\ DOMAIN s = 1..Len(s) /\ s \in Seq(Script!Characters)
  BY LenProperties
<1>2. \A i \in Kept1 \cup {0} : i \in 0..Len(s)
  BY <1>1
<1>3. \A i \in 1..Len(s) : i \notin Kept1 => s[i] = "space"
  BY <1>1
<1> HIDE DEF Kept1
<1>4. PICK x \in Kept1 \cup {0} : \A j \in Kept1 : j <= x
  <2>1. T \subseteq Nat /\ T # {}
    BY <1>1, <1>2
  <2>2. PICK t \in T : \A y \in T : t <= y
    <3> HIDE DEF T
    <3> QED
      BY <2>1, LeastOf
  <2>3. PICK x \in Kept1 \cup {0} : t = Len(s) - x
    BY <2>2
  <2>4. ASSUME NEW j \in Kept1 PROVE j <= x
    <3>1. Len(s) - j \in T
      OBVIOUS
    <3>2. t <= Len(s) - j /\ j \in 0..Len(s) /\ x \in 0..Len(s)
      BY <1>2, <2>2, <3>1
    <3> QED
      BY <1>1, <2>3, <3>2
  <2> QED
    BY <2>4
<1>5. m \in Kept1 \cup {0} /\ \A j \in Kept1 : j <= m
  BY <1>4
<1>6. Script!Stripped(s) = a
  BY DEF Script!Stripped, Kept1
<1> HIDE DEF m, T
<1>7. m \in Nat /\ m <= Len(s)
  BY <1>1, <1>2, <1>5
<1>8. /\ a \in Seq(Script!Characters) /\ b \in Seq(Script!Characters) /\ a \o b = s
      /\ Len(b) = Len(s) - m
      /\ \A i \in 1..Len(b) : b[i] = s[m + i]
  <2>1. m \in 0..Len(s)
    BY <1>1, <1>7
  <2> QED
    BY <1>1, <2>1, CutInTwo
<1> HIDE DEF a, b
<1>9. ASSUME NEW i \in 1..Len(b) PROVE b[i] \notin S
  <2>1. m + i \in 1..Len(s) /\ ~(m + i <= m)
    BY <1>1, <1>7, <1>8
  <2> QED
    BY <1>3, <1>5, <1>8, <2>1
<1>10. Script!Only(b, S) = << >>
  BY <1>8, <1>9, OnlyNone
<1>11. /\ Script!Only(a \o b, S) = Script!Only(a, S) \o Script!Only(b, S)
       /\ Script!Only(a, S) \in Seq(Script!Characters)
  <2>1. a \in Seq(Script!Characters) /\ b \in Seq(Script!Characters)
    BY <1>8
  <2> QED
    BY <2>1, OnlyJoin
<1> QED
  BY <1>6, <1>8, <1>10, <1>11

\* So has what is left when a backslash at its end is taken away.
LEMMA UnslashedKeeps ==
  ASSUME NEW s \in Seq(Script!Characters), NEW S, "\\" \notin S
  PROVE  /\ Script!Unslashed(s) \in Seq(Script!Characters)
         /\ Script!Only(Script!Unslashed(s), S) = Script!Only(s, S)
<1> DEFINE a == SubSeq(s, 1, Len(s) - 1)
           b == SubSeq(s, Len(s), Len(s))
<1>1. Len(s) \in Nat /\ DOMAIN s = 1..Len(s) /\ s \in Seq(Script!Characters)
  BY LenProperties
<1>2. CASE ~(Script!Slashes(s) > 0)
  BY <1>2 DEF Script!Unslashed
<1>3. CASE Script!Slashes(s) > 0
  <2> DEFINE Ending == {i \in DOMAIN s : \A j \in i..Len(s) : s[j] = "\\"}
  <2>1. Ending # {}
    <3>1. Script!Slashes(s) = Cardinality(Ending)
      BY DEF Script!Slashes, Script!Cardinality, Cardinality
    <3> HIDE DEF Ending
    <3>2. Cardinality({}) = 0
      BY FS_EmptySet
    <3>3. Ending = {} => Script!Slashes(s) = 0
      BY <3>1, <3>2
    <3> QED
      BY <1>3, <3>3
  <2>2. PICK i \in 1..Len(s) : \A j \in i..Len(s) : s[j] = "\\"
    BY <1>1, <2>1
  <2>3. Len(s) \in i..Len(s) /\ Len(s) >= 1
    BY <1>1
  <2>4. s[Len(s)] = "\\"
    BY <2>2, <2>3
  <2>5. Script!Unslashed(s) = a
    BY <1>3 DEF Script!Unslashed, Script!Front
  <2>6. /\ a \in Seq(Script!Characters) /\ b \in Seq(Script!Characters) /\ a \o b = s
        /\ Len(b) = 1 /\ b[1] = s[Len(s)]
    <3> DEFINE m == Len(s) - 1
    <3>1. m \in 0..Len(s) /\ m + 1 = Len(s) /\ Len(s) - m = 1 /\ 1 \in 1..1
      BY <1>1, <2>3
    <3> HIDE DEF m
    <3>2. /\ SubSeq(s, 1, m) \in Seq(Script!Characters)
          /\ SubSeq(s, m + 1, Len(s)) \in Seq(Script!Characters)
          /\ Len(SubSeq(s, m + 1, Len(s))) = Len(s) - m
          /\ \A k \in 1..(Len(s) - m) : SubSeq(s, m + 1, Len(s))[k] = s[m + k]
          /\ SubSeq(s, 1, m) \o SubSeq(s, m + 1, Len(s)) = s
      BY <1>1, <3>1, CutInTwo
    <3> QED
      BY <3>1, <3>2 DEF m
  <2> HIDE DEF a, b
  <2>7. \A j \in 1..Len(b) : b[j] \notin S
    BY <2>4, <2>6
  <2>8. Script!Only(b, S) = << >>
    BY <2>6, <2>7, OnlyNone
  <2>9. /\ Script!Only(a \o b, S) = Script!Only(a, S) \o Script!Only(b, S)
        /\ Script!Only(a, S) \in Seq(Script!Characters)
    <3>1. a \in Seq(Script!Characters) /\ b \in Seq(Script!Characters)
      BY <2>6
    <3> QED
      BY <3>1, OnlyJoin
  <2> QED
    BY <2>5, <2>6, <2>8, <2>9
<1> QED
  BY <1>2, <1>3

\* The texts of the events.
Texts(es) == [i \in DOMAIN es |-> es[i].text]

ScriptEvents == [text : Seq(Script!Characters), number : Nat]

LEMMA TextsNext ==
  ASSUME NEW es \in Seq(ScriptEvents), NEW e \in ScriptEvents
  PROVE  /\ Texts(es) \in Seq(Seq(Script!Characters))
         /\ Script!FlattenSeq(Texts(Append(es, e))) = Script!FlattenSeq(Texts(es)) \o e.text
         /\ Script!FlattenSeq(Texts(es)) \in Seq(Script!Characters)
<1> DEFINE a == Texts(es)
           b == <<e.text>>
           d == Texts(Append(es, e))
<1>1. Len(es) \in Nat /\ DOMAIN es = 1..Len(es) /\ \A i \in 1..Len(es) : es[i] \in ScriptEvents
  BY LenProperties, ElementOfSeq
<1>2. /\ Len(Append(es, e)) = Len(es) + 1 /\ DOMAIN Append(es, e) = 1..(Len(es) + 1)
      /\ Append(es, e)[Len(es) + 1] = e /\ \A i \in 1..Len(es) : Append(es, e)[i] = es[i]
  BY <1>1
<1>3. /\ e.text \in Seq(Script!Characters)
      /\ \A i \in 1..Len(es) : es[i].text \in Seq(Script!Characters)
  BY <1>1 DEF ScriptEvents
<1>4. a = [i \in 1..Len(es) |-> es[i].text]
  BY <1>1 DEF Texts
<1>5. a \in Seq(Seq(Script!Characters)) /\ Len(a) = Len(es)
  <2>1. a \in [1..Len(es) -> Seq(Script!Characters)]
    BY <1>3, <1>4
  <2> HIDE DEF a
  <2> QED
    BY <1>1, <2>1
<1>6. b \in Seq(Seq(Script!Characters)) /\ Len(b) = 1 /\ b[1] = e.text
  BY <1>3
<1>7. d = [i \in 1..(Len(es) + 1) |-> Append(es, e)[i].text]
  BY <1>2 DEF Texts
<1>8. d = a \o b
  <2>1. a \o b \in Seq(Seq(Script!Characters)) /\ Len(a \o b) = Len(a) + Len(b)
    BY <1>5, <1>6, ConcatProperties
  <2>2. ASSUME NEW i \in 1..(Len(es) + 1)
        PROVE  d[i] = (a \o b)[i] /\ d[i] \in Seq(Script!Characters)
    <3> HIDE DEF a, b, d
    <3>1. CASE i \in 1..Len(es)
      <4>1. (a \o b)[i] = a[i]
        BY <1>1, <1>5, <1>6, <3>1, ConcatProperties
      <4>2. d[i] = es[i].text
        BY <1>2, <1>7, <3>1
      <4> QED
        BY <1>3, <1>4, <3>1, <4>1, <4>2
    <3>2. CASE i = Len(es) + 1
      <4>1. (a \o b)[i] = b[1]
        <5>1. Len(a) = Len(es) /\ Len(b) = 1
          BY <1>5, <1>6
        <5>2. i \in 1..(Len(a) + Len(b)) /\ ~(i <= Len(a)) /\ i - Len(a) = 1
          BY <1>1, <3>2, <5>1
        <5>3. \A j \in 1..(Len(a) + Len(b)) :
                (a \o b)[j] = IF j <= Len(a) THEN a[j] ELSE b[j - Len(a)]
          BY <1>5, <1>6, ConcatProperties
        <5> QED
          BY <5>2, <5>3
      <4>2. d[i] = e.text
        BY <1>2, <1>7, <3>2
      <4> QED
        BY <1>3, <1>6, <4>1, <4>2
    <3>3. i \in 1..Len(es) \/ i = Len(es) + 1
      BY <1>1
    <3> QED
      BY <3>1, <3>2, <3>3
  <2> HIDE DEF a, b
  <2>3. d \in [1..(Len(es) + 1) -> Seq(Script!Characters)]
    BY <1>7, <2>2
  <2> HIDE DEF d
  <2>4. d \in Seq(Seq(Script!Characters)) /\ Len(d) = Len(es) + 1
    BY <1>1, <2>3
  <2>5. Len(d) = Len(a \o b) /\ \A i \in 1..Len(d) : d[i] = (a \o b)[i]
    BY <1>5, <1>6, <2>1, <2>2, <2>4
  <2> QED
    BY <2>1, <2>4, <2>5, SeqEqual
<1> HIDE DEF a, b, d
<1>9. Script!FlattenSeq(a \o b) = Script!FlattenSeq(a) \o Script!FlattenSeq(b)
  BY <1>5, <1>6, FlatJoin
<1>10. Script!FlattenSeq(a) \in Seq(Script!Characters)
  BY <1>5, <1>6, FlatJoin
<1>11. Script!FlattenSeq(b) = e.text
  <2> DEFINE g == [i \in 0..1 |-> IF i = 0 THEN << >> ELSE e.text]
  <2>1. g \in [0..1 -> Seq(Script!Characters)] /\ g[0] = << >> /\ g[1] = e.text
    BY <1>3
  <2> HIDE DEF g
  <2>2. \A i \in 1..1 : g[i] = g[i - 1] \o b[i]
    <3>1. << >> \o e.text = e.text
      BY <1>3
    <3> QED
      BY <1>6, <2>1, <3>1
  <2>3. Flattens(b, g, Script!Characters)
    BY <1>6, <2>1, <2>2 DEF Flattens
  <2> QED
    BY <1>6, <2>1, <2>3, FlatIs
<1> QED
  BY <1>5, <1>8, <1>9, <1>10, <1>11 DEF a, d

\* What r is read of the script, with the events es and the line text put together.
ScriptRead(r, es, text, count) ==
  /\ Script!Letters(Script!FlattenSeq(Texts(es)) \o text) = Script!Letters(r)
  /\ count = Script!Count(r)

\* The events are numbered in order, up to the line that the next one begins after.
Numbered(es, n) ==
  /\ \A i \in 1..Len(es) : es[i].number <= n
  /\ \A i, j \in 1..Len(es) : i < j => es[i].number < es[j].number

\* The inductive invariant.
ScriptInv ==
  /\ s1 \in Seq(Script!Characters) /\ s2 \in Seq(Script!Characters)
  /\ s3 \in Seq(Script!Characters) /\ s4 \in Nat /\ s5 \in Nat /\ s6 \in Seq(ScriptEvents)
  /\ \E r \in Seq(Script!Characters) : s1 = r \o s2 /\ ScriptRead(r, s6, s3, s5 + s4)
  /\ Numbered(s6, s5)

\* A line and its end, read after r.
LEMMA LineReadNext ==
  ASSUME NEW r \in Seq(Script!Characters), NEW line \in Seq(Script!Characters),
         \A j \in 1..Len(line) : line[j] # "end"
  PROVE  /\ (r \o line) \o <<"end">> \in Seq(Script!Characters)
         /\ Script!Letters((r \o line) \o <<"end">>) = Script!Letters(r) \o Script!Letters(line)
         /\ Script!Count((r \o line) \o <<"end">>) = Script!Count(r) + 1
<1> DEFINE e == <<"end">>
           L == {"o", "x"}
           E == {"end"}
           rl == r \o line
<1>1. "end" \in Script!Characters
  BY DEF Script!Characters
<1>2. e \in Seq(Script!Characters) /\ Len(e) = 1 /\ e[1] = "end" /\ rl \in Seq(Script!Characters)
  BY <1>1
<1>3. \A i \in 1..Len(e) : e[i] \notin L
  BY <1>2
<1>4. \A i \in 1..Len(line) : line[i] \notin E
  OBVIOUS
<1>5. Script!Only(e, E) = e
  BY <1>1, OnlyOne
<1> HIDE DEF e, L, E
<1>6. Script!Only(e, L) = << >>
  BY <1>2, <1>3, OnlyNone
<1>7. Script!Only(line, E) = << >>
  BY <1>4, OnlyNone
<1>8. \A S : /\ Script!Only(rl, S) = Script!Only(r, S) \o Script!Only(line, S)
             /\ Script!Only(r, S) \in Seq(Script!Characters)
             /\ Script!Only(line, S) \in Seq(Script!Characters)
  <2> TAKE S
  <2>1. /\ Script!Only(rl, S) = Script!Only(r, S) \o Script!Only(line, S)
        /\ Script!Only(r, S) \in Seq(Script!Characters)
    <3>1. /\ Script!Only(Linked(r, line), S) = Linked(Script!Only(r, S), Script!Only(line, S))
          /\ Script!Only(r, S) \in Seq(Script!Characters)
      BY OnlyLinked
    <3> QED
      BY <3>1 DEF Linked
  <2>2. Script!Only(line, S) \in Seq(Script!Characters)
    BY OnlyJoin
  <2> QED
    BY <2>1, <2>2
<1> HIDE DEF rl
<1>9. rl \o e \in Seq(Script!Characters)
  BY <1>2
<1>10. \A S : /\ Script!Only(rl \o e, S) = Script!Only(rl, S) \o Script!Only(e, S)
              /\ Script!Only(rl, S) \in Seq(Script!Characters)
  BY <1>2, OnlyJoin
<1>11. Script!Only(rl \o e, L) = Script!Only(r, L) \o Script!Only(line, L)
  <2>1. /\ Script!Only(rl \o e, L) = Script!Only(rl, L) \o << >>
        /\ Script!Only(rl, L) \in Seq(Script!Characters)
    BY <1>6, <1>10
  <2>2. Script!Only(rl \o e, L) = Script!Only(rl, L)
    BY <2>1
  <2> QED
    BY <1>8, <2>2
<1>12. Len(Script!Only(rl \o e, E)) = Len(Script!Only(r, E)) + 1
  <2>1. /\ Script!Only(rl, E) = Script!Only(r, E) \o << >>
        /\ Script!Only(r, E) \in Seq(Script!Characters)
    BY <1>7, <1>8
  <2>2. Script!Only(rl, E) = Script!Only(r, E)
    BY <2>1
  <2>3. Script!Only(rl \o e, E) = Script!Only(r, E) \o e
    BY <1>5, <1>10, <2>2
  <2>4. Len(Script!Only(r, E) \o e) = Len(Script!Only(r, E)) + Len(e)
    <3> DEFINE u == Script!Only(r, E)
    <3>1. u \in Seq(Script!Characters) /\ e \in Seq(Script!Characters)
      BY <1>2, <2>1
    <3> HIDE DEF u
    <3>2. Len(u \o e) = Len(u) + Len(e)
      BY <3>1
    <3> QED
      BY <3>2 DEF u
  <2> QED
    BY <1>2, <2>3, <2>4
<1> QED
  BY <1>9, <1>11, <1>12 DEF rl, e, L, E, Script!Letters, Script!Count

\* Readline takes the first line from what is left.
LEMMA ReadLineTakes ==
  ASSUME NEW r \in Seq(Script!Characters), NEW s \in Seq(Script!Characters), Script!Ended(s)
  PROVE  LET line == SubSeq(s, 1, Script!FirstEnd(s) - 1)
             rest == SubSeq(s, Script!FirstEnd(s) + 1, Len(s))
         IN /\ line \in Seq(Script!Characters) /\ rest \in Seq(Script!Characters)
            /\ \A j \in 1..Len(line) : line[j] # "end"
            /\ r \o s = ((r \o line) \o <<"end">>) \o rest
<1>1. PICK n \in 1..Len(s) :
        Script!FirstEnd(s) = n /\ s[n] = "end" /\ \A j \in 1..(n - 1) : s[j] # "end"
  BY FirstEndIs
<1> DEFINE line == SubSeq(s, 1, n - 1)
           rest == SubSeq(s, n + 1, Len(s))
           e == <<"end">>
<1>2. Len(s) \in Nat /\ n \in 0..Len(s) /\ n - 1 \in 0..Len(s) /\ n \in Nat /\ n >= 1
  BY <1>1
<1>3. /\ line \in Seq(Script!Characters) /\ Len(line) = n - 1
      /\ \A i \in 1..(n - 1) : line[i] = s[i]
  BY <1>2, CutInTwo
<1>4. /\ rest \in Seq(Script!Characters) /\ Len(rest) = Len(s) - n
      /\ \A i \in 1..(Len(s) - n) : rest[i] = s[n + i]
  BY <1>2, CutInTwo
<1>5. \A j \in 1..Len(line) : line[j] # "end"
  BY <1>1, <1>3
<1>6. "end" \in Script!Characters
  BY DEF Script!Characters
<1>7. e \in Seq(Script!Characters) /\ Len(e) = 1 /\ e[1] = "end"
  BY <1>6
<1> DEFINE left == SubSeq(s, n, Len(s))
<1>8. /\ left \in Seq(Script!Characters) /\ Len(left) = Len(s) - (n - 1) /\ line \o left = s
      /\ \A i \in 1..(Len(s) - (n - 1)) : left[i] = s[(n - 1) + i]
  <2> DEFINE m == n - 1
  <2>1. m + 1 = n
    BY <1>2
  <2> HIDE DEF m
  <2>2. m \in 0..Len(s)
    BY <1>2 DEF m
  <2>3. /\ SubSeq(s, m + 1, Len(s)) \in Seq(Script!Characters)
        /\ Len(SubSeq(s, m + 1, Len(s))) = Len(s) - m
        /\ \A i \in 1..(Len(s) - m) : SubSeq(s, m + 1, Len(s))[i] = s[m + i]
        /\ SubSeq(s, 1, m) \o SubSeq(s, m + 1, Len(s)) = s
    BY <2>2, CutInTwo
  <2> QED
    BY <2>1, <2>3 DEF m
<1> HIDE DEF line, rest, e, left
<1>9. left = e \o rest
  <2> DEFINE z == e \o rest
  <2>1. /\ z \in Seq(Script!Characters) /\ Len(z) = Len(e) + Len(rest)
        /\ \A i \in 1..(Len(e) + Len(rest)) :
             z[i] = IF i <= Len(e) THEN e[i] ELSE rest[i - Len(e)]
    BY <1>4, <1>7, ConcatProperties
  <2> HIDE DEF z
  <2>2. Len(z) = Len(left)
    BY <1>2, <1>4, <1>7, <1>8, <2>1
  <2>3. ASSUME NEW i \in 1..Len(left) PROVE left[i] = z[i]
    <3>1. /\ i \in Nat /\ i >= 1 /\ i <= Len(s) - (n - 1) /\ left[i] = s[(n - 1) + i]
          /\ z[i] = IF i <= 1 THEN e[i] ELSE rest[i - 1]
      BY <1>2, <1>4, <1>7, <1>8, <2>1, <2>3
    <3>2. CASE i = 1
      BY <1>1, <1>2, <1>7, <3>1, <3>2
    <3>3. CASE i # 1
      <4>1. i - 1 \in 1..(Len(s) - n) /\ n + (i - 1) = (n - 1) + i
        BY <1>2, <3>1, <3>3
      <4> QED
        BY <1>2, <1>4, <3>1, <3>3, <4>1
    <3> QED
      BY <3>2, <3>3
  <2>4. left = z
    BY <1>8, <2>1, <2>2, <2>3, SeqEqual
  <2> QED
    BY <2>4 DEF z
<1>10. r \o (line \o (e \o rest)) = ((r \o line) \o e) \o rest
  <2>1. /\ r \in Seq(Script!Characters) /\ line \in Seq(Script!Characters)
        /\ e \in Seq(Script!Characters) /\ rest \in Seq(Script!Characters)
    BY <1>3, <1>4, <1>7
  <2>2. r \o (line \o (e \o rest)) = (r \o line) \o (e \o rest)
    <3> DEFINE er == e \o rest
    <3>1. er \in Seq(Script!Characters)
      BY <2>1
    <3> HIDE DEF er
    <3>2. r \o (line \o er) = (r \o line) \o er
      BY <2>1, <3>1
    <3> QED
      BY <3>2 DEF er
  <2>3. (r \o line) \o (e \o rest) = ((r \o line) \o e) \o rest
    <3> DEFINE rl == r \o line
    <3>1. rl \in Seq(Script!Characters)
      BY <2>1
    <3> HIDE DEF rl
    <3>2. rl \o (e \o rest) = (rl \o e) \o rest
      BY <2>1, <3>1
    <3> QED
      BY <3>2 DEF rl
  <2> QED
    BY <2>2, <2>3
<1>11. r \o s = ((r \o line) \o e) \o rest
  BY <1>8, <1>9, <1>10
<1> QED
  BY <1>1, <1>3, <1>4, <1>5, <1>11 DEF line, rest, e

LEMMA ScriptBegins ==
  ASSUME Script!Init
  PROVE  ScriptInv
<1> DEFINE C == Script!Characters
           r == << >>
<1>1. /\ s1 \in Script!SeqOf(C, MaxFile) /\ s2 = s1 /\ s3 = << >> /\ s4 = 0 /\ s5 = 0 /\ s6 = << >>
  BY DEF Script!Init
<1>2. s1 \in Seq(C)
  <2>1. PICK m \in 0..MaxFile : s1 \in [1..m -> C]
    BY <1>1 DEF Script!SeqOf
  <2>2. m \in Nat
    BY <2>1, ControlAssumption
  <2> HIDE DEF C
  <2> QED
    BY <2>1, <2>2
<1>3. r \in Seq(C) /\ r \o s1 = s1 /\ Len(r) = 0
  <2> HIDE DEF C
  <2> QED
    BY <1>2
<1>4. \A S : Script!Only(r, S) = << >>
  <2> TAKE S
  <2>1. \A i \in 1..Len(r) : r[i] \notin S
    BY <1>3
  <2> HIDE DEF r
  <2> QED
    BY <1>3, <2>1, OnlyNone
<1>5. Script!FlattenSeq(Texts(<< >>)) = << >>
  <2>1. Texts(<< >>) = << >>
    BY DEF Texts
  <2> QED
    BY <2>1 DEF Script!FlattenSeq
<1>6. << >> \o << >> = r /\ Len(<< >>) = 0
  BY EmptySeq
<1>7. ScriptRead(r, << >>, << >>, 0)
  <2>1. Script!Letters(Script!FlattenSeq(Texts(<< >>)) \o << >>) = Script!Letters(r)
    BY <1>5, <1>6
  <2>2. 0 = Script!Count(r)
    BY <1>4, <1>6 DEF Script!Count
  <2> QED
    BY <2>1, <2>2 DEF ScriptRead
<1>8. Numbered(<< >>, 0)
  BY DEF Numbered
<1>9. << >> \in Seq(ScriptEvents) /\ << >> \in Seq(C) /\ 0 + 0 = 0
  OBVIOUS
<1> HIDE DEF r
<1>10. \E q \in Seq(Script!Characters) : s1 = q \o s2 /\ ScriptRead(q, s6, s3, s5 + s4)
  BY <1>1, <1>3, <1>7, <1>9
<1> QED
  BY <1>1, <1>2, <1>8, <1>9, <1>10 DEF ScriptInv

\* What is put together has the letters that are read: the same text has them, and a line
\* more has those of the line.
LEMMA LettersMore ==
  ASSUME NEW before \in Seq(Script!Characters), NEW r \in Seq(Script!Characters),
         NEW line \in Seq(Script!Characters), NEW t \in Seq(Script!Characters),
         Script!Letters(before) = Script!Letters(r),
         Script!Letters(t) = Script!Letters(line)
  PROVE  Script!Letters(before \o t) = Script!Letters(r) \o Script!Letters(line)
<1> DEFINE L == {"o", "x"}
<1> HIDE DEF L
<1>1. Script!Only(Linked(before, t), L) = Linked(Script!Only(before, L), Script!Only(t, L))
  BY OnlyLinked
<1> QED
  BY <1>1 DEF L, Linked, Script!Letters

LEMMA ScriptReads ==
  ASSUME ScriptInv, Script!ReadLine
  PROVE  ScriptInv'
<1> DEFINE C == Script!Characters
           line == SubSeq(s2, 1, Script!FirstEnd(s2) - 1)
           rest == SubSeq(s2, Script!FirstEnd(s2) + 1, Len(s2))
           flat == Script!FlattenSeq(Texts(s6))
           t == Script!Unslashed(Script!Stripped(line))
<1>1. PICK r \in Seq(C) : s1 = r \o s2 /\ ScriptRead(r, s6, s3, s5 + s4)
  BY DEF ScriptInv
<1>2. /\ s1 \in Seq(C) /\ s2 \in Seq(C) /\ s3 \in Seq(C) /\ s4 \in Nat /\ s5 \in Nat
      /\ s6 \in Seq(ScriptEvents) /\ Numbered(s6, s5)
  BY DEF ScriptInv
<1>3. /\ Script!Ended(s2) /\ s2' = rest /\ s1' = s1
      /\ Script!Skip(line) \/ Script!Continue(line) \/ Script!Deliver(line)
  BY DEF Script!ReadLine
<1> DEFINE q == (r \o line) \o <<"end">>
<1>4. /\ line \in Seq(C) /\ rest \in Seq(C) /\ \A j \in 1..Len(line) : line[j] # "end"
      /\ r \o s2 = q \o rest
  BY <1>1, <1>2, <1>3, ReadLineTakes
<1> HIDE DEF line, rest
<1>5. /\ q \in Seq(C) /\ Script!Letters(q) = Script!Letters(r) \o Script!Letters(line)
      /\ Script!Count(q) = Script!Count(r) + 1
  BY <1>1, <1>4, LineReadNext
<1> HIDE DEF q
<1>6. s1' \in Seq(C) /\ s2' \in Seq(C) /\ s1' = q \o s2'
  BY <1>1, <1>2, <1>3, <1>4
<1>7. /\ Script!Stripped(line) \in Seq(C)
      /\ Script!Letters(Script!Stripped(line)) = Script!Letters(line)
  <2>1. "space" \notin {"o", "x"}
    OBVIOUS
  <2> QED
    BY <1>4, <2>1, StrippedKeeps DEF Script!Letters
<1>8. t \in Seq(C) /\ Script!Letters(t) = Script!Letters(line)
  <2>1. "\\" \notin {"o", "x"}
    OBVIOUS
  <2>2. /\ t \in Seq(C)
        /\ Script!Only(t, {"o", "x"}) = Script!Only(Script!Stripped(line), {"o", "x"})
    BY <1>7, <2>1, UnslashedKeeps
  <2> QED
    BY <1>7, <2>2 DEF Script!Letters
<1>9. /\ flat \in Seq(C) /\ Script!Letters(flat \o s3) = Script!Letters(r)
      /\ s5 + s4 = Script!Count(r)
  <2>1. [text |-> << >>, number |-> 0] \in ScriptEvents
    BY DEF ScriptEvents
  <2>2. flat \in Seq(C)
    BY <1>2, <2>1, TextsNext
  <2> QED
    BY <1>1, <2>2 DEF ScriptRead
<1> HIDE DEF t, flat, C
<1>10. flat \o s3 \in Seq(C)
  BY <1>2, <1>9
<1>11. Script!Letters((flat \o s3) \o t) = Script!Letters(q)
  <2> DEFINE b == flat \o s3
  <2>1. b \in Seq(C) /\ Script!Letters(b) = Script!Letters(r)
    BY <1>9, <1>10
  <2> HIDE DEF b
  <2>2. Script!Letters(b \o t) = Script!Letters(r) \o Script!Letters(line)
    <3>1. /\ b \in Seq(Script!Characters) /\ r \in Seq(Script!Characters)
          /\ line \in Seq(Script!Characters) /\ t \in Seq(Script!Characters)
      BY <1>1, <1>4, <1>8, <2>1 DEF C
    <3> QED
      BY <1>8, <2>1, <3>1, LettersMore
  <2> QED
    BY <1>5, <2>2 DEF b
<1>12. flat \o (s3 \o t) = (flat \o s3) \o t /\ s3 \o t \in Seq(C)
  BY <1>2, <1>8, <1>9
<1>13. CASE Script!Skip(line)
  <2>1. s3' = s3 /\ s5' = s5 /\ s6' = s6 /\ s4' = s4 + 1
    BY <1>13 DEF Script!Skip
  <2>2. Script!Letters(line) = << >>
    <3>1. Script!Stripped(line) = << >> \/ Script!Stripped(line) = <<"space">>
      BY <1>13 DEF Script!Skip, Script!Blank
    <3>2. \A i \in 1..Len(Script!Stripped(line)) : Script!Stripped(line)[i] \notin {"o", "x"}
      BY <3>1
    <3>3. Script!Only(Script!Stripped(line), {"o", "x"}) = << >>
      BY <1>7, <3>2, OnlyNone
    <3> QED
      BY <1>7, <3>3 DEF Script!Letters
  <2>3. Script!Letters(q) = Script!Letters(r)
    <3>1. Script!Letters(r) \in Seq(C)
      BY <1>1, OnlyJoin DEF Script!Letters, C
    <3> HIDE DEF q
    <3> QED
      BY <1>5, <2>2, <3>1
  <2>4. ScriptRead(q, s6', s3', s5' + s4')
    <3>1. s5' + s4' = Script!Count(q)
      BY <1>2, <1>5, <1>9, <2>1
    <3> QED
      BY <1>9, <2>1, <2>3, <3>1 DEF ScriptRead, flat
  <2>5. s4' \in Nat /\ s5' \in Nat /\ s3' \in Seq(C) /\ s6' \in Seq(ScriptEvents)
    BY <1>2, <2>1
  <2>6. Numbered(s6', s5')
    BY <1>2, <2>1
  <2> QED
    BY <1>5, <1>6, <2>4, <2>5, <2>6 DEF ScriptInv, C
<1>14. CASE Script!Continue(line)
  <2>1. s3' = s3 \o t /\ s5' = s5 /\ s6' = s6 /\ s4' = s4 + 1
    BY <1>14 DEF Script!Continue, Script!Join, t
  <2>2. Script!Letters(flat \o s3') = Script!Letters(q)
    BY <1>11, <1>12, <2>1
  <2>3. s5' + s4' = Script!Count(q)
    BY <1>2, <1>5, <1>9, <2>1
  <2>4. ScriptRead(q, s6', s3', s5' + s4')
    BY <2>1, <2>2, <2>3 DEF ScriptRead, flat
  <2>5. s4' \in Nat /\ s5' \in Nat /\ s3' \in Seq(C) /\ s6' \in Seq(ScriptEvents)
    BY <1>2, <1>12, <2>1
  <2>6. Numbered(s6', s5')
    BY <1>2, <2>1
  <2> QED
    BY <1>5, <1>6, <2>4, <2>5, <2>6 DEF ScriptInv, C
<1>15. CASE Script!Deliver(line)
  <2> DEFINE e == [text |-> s3 \o t, number |-> s5 + 1]
  <2>1. s6' = Append(s6, e) /\ s5' = s5 + s4 + 1 /\ s4' = 0 /\ s3' = << >>
    BY <1>15 DEF Script!Deliver, Script!Join, Script!NextCount, t
  <2>2. e \in ScriptEvents /\ e.text = s3 \o t /\ e.number = s5 + 1
    BY <1>2, <1>12 DEF ScriptEvents, C
  <2> HIDE DEF e
  <2>3. Script!FlattenSeq(Texts(s6')) = flat \o (s3 \o t)
    BY <1>2, <2>1, <2>2, TextsNext DEF flat
  <2>4. Script!FlattenSeq(Texts(s6')) \o s3' = flat \o (s3 \o t)
    <3> DEFINE u == flat \o (s3 \o t)
    <3>1. u \in Seq(C)
      BY <1>9, <1>12
    <3> HIDE DEF u
    <3>2. u \o << >> = u
      BY <3>1
    <3> QED
      BY <2>1, <2>3, <3>2 DEF u
  <2>5. Script!Letters(Script!FlattenSeq(Texts(s6')) \o s3') = Script!Letters(q)
    BY <1>11, <1>12, <2>4
  <2>6. s5' + s4' = Script!Count(q)
    BY <1>2, <1>5, <1>9, <2>1
  <2>7. ScriptRead(q, s6', s3', s5' + s4')
    BY <2>5, <2>6 DEF ScriptRead
  <2>8. s4' \in Nat /\ s5' \in Nat /\ s3' \in Seq(C) /\ s6' \in Seq(ScriptEvents)
    <3>1. s6' \in Seq(ScriptEvents)
      BY <1>2, <2>1, <2>2, AppendProperties
    <3>2. << >> \in Seq(C)
      OBVIOUS
    <3> QED
      BY <1>2, <2>1, <3>1, <3>2
  <2>9. Numbered(s6', s5')
    <3>1. /\ Len(s6') = Len(s6) + 1 /\ Len(s6) \in Nat /\ s6'[Len(s6) + 1] = e
          /\ \A i \in 1..Len(s6) : s6'[i] = s6[i]
      BY <1>2, <2>1, <2>2, AppendProperties
    <3>2. \A i \in 1..Len(s6) : s6[i].number \in Nat /\ s6[i].number <= s5
      <4>1. \A i \in 1..Len(s6) : s6[i] \in ScriptEvents
        BY <1>2, ElementOfSeq
      <4> QED
        BY <1>2, <4>1 DEF ScriptEvents, Numbered
    <3>3. \A i, j \in 1..Len(s6) : i < j => s6[i].number < s6[j].number
      BY <1>2 DEF Numbered
    <3>4. \A i \in 1..Len(s6') : i \in 1..Len(s6) \/ i = Len(s6) + 1
      BY <3>1
    <3>5. \A i \in 1..Len(s6') : s6'[i].number <= s5'
      BY <1>2, <2>1, <2>2, <3>1, <3>2, <3>4
    <3>6. ASSUME NEW i \in 1..Len(s6'), NEW j \in 1..Len(s6'), i < j
          PROVE  s6'[i].number < s6'[j].number
      <4>1. i \in 1..Len(s6)
        BY <3>1, <3>6
      <4>2. CASE j \in 1..Len(s6)
        BY <3>1, <3>3, <3>6, <4>1, <4>2
      <4>3. CASE j = Len(s6) + 1
        <5>1. s6'[j].number = s5 + 1 /\ s6'[i].number = s6[i].number
          BY <2>2, <3>1, <4>1, <4>3
        <5>2. s6[i].number \in Nat /\ s6[i].number <= s5
          BY <3>2, <4>1
        <5> QED
          BY <1>2, <5>1, <5>2
      <4> QED
        BY <3>4, <4>2, <4>3
    <3> QED
      BY <3>5, <3>6 DEF Numbered
  <2> QED
    BY <1>5, <1>6, <2>7, <2>8, <2>9 DEF ScriptInv, C
<1> QED
  BY <1>3, <1>13, <1>14, <1>15

LEMMA ScriptKept ==
  ASSUME ScriptInv, UNCHANGED <<s1, s2, s3, s4, s5, s6>>
  PROVE  ScriptInv'
BY DEF ScriptInv

LEMMA ScriptStep ==
  ASSUME ScriptInv, Script!Next
  PROVE  ScriptInv'
<1>1. CASE Script!ReadLine
  BY <1>1, ScriptReads
<1>2. CASE Script!End
  <2>1. UNCHANGED <<s1, s2, s3, s4, s5, s6>>
    BY <1>2 DEF Script!End
  <2> QED
    BY <2>1, ScriptKept
<1> QED
  BY <1>1, <1>2 DEF Script!Next

LEMMA ScriptMeans ==
  ASSUME ScriptInv
  PROVE  Script!NothingLost
<1>1. PICK r \in Seq(Script!Characters) : s1 = r \o s2 /\ ScriptRead(r, s6, s3, s5 + s4)
  BY DEF ScriptInv
<1>2. /\ s1 \in Seq(Script!Characters) /\ s2 \in Seq(Script!Characters)
      /\ s6 \in Seq(ScriptEvents) /\ Numbered(s6, s5)
  BY DEF ScriptInv
<1>3. SubSeq(s1, 1, Len(s1) - Len(s2)) = r
  <2>1. Len(s1) - Len(s2) = Len(r)
    BY <1>1, <1>2
  <2>2. SubSeq(r \o s2, 1, Len(r)) = r
    BY <1>1, <1>2
  <2> QED
    BY <1>1, <2>1, <2>2
<1>4. DOMAIN s6 = 1..Len(s6)
  BY <1>2, LenProperties
<1>5. /\ Script!Letters(Script!FlattenSeq([i \in DOMAIN s6 |-> s6[i].text]) \o s3)
           = Script!Letters(r)
      /\ s5 + s4 = Script!Count(r)
  BY <1>1 DEF ScriptRead, Texts
<1>6. \A i, j \in DOMAIN s6 : i < j => s6[i].number < s6[j].number
  BY <1>2, <1>4 DEF Numbered
<1> QED
  BY <1>3, <1>5, <1>6 DEF Script!NothingLost

(***************************************************************************)
(* What is sent of a trace (Traces, which is Cloning in MCControl).        *)
(***************************************************************************)
LEMMA TimesMore ==
  ASSUME NEW j \in Nat, NEW n \in Nat, j <= n, NEW M \in Nat
  PROVE  /\ j * M \in Nat /\ n * M \in Nat /\ j * M <= n * M
         /\ (j + 1) * M = j * M + M
BY SMT

LEMMA TurnIs ==
  ASSUME NEW j \in Nat, NEW M \in Nat, M > 0, NEW i \in Nat, i < M
  PROVE  (j * M + i) % M = i
BY SMT

\* What MgenPattern can read: see TraceAssumption.
GoodTrace(t) ==
  /\ t \in Seq([time : Int, size : 42..(42 + 255)])
  /\ Len(t) >= 2
  /\ t[Len(t)].time - t[Len(t) - 1].time # Second

LEMMA PacketIs ==
  ASSUME NEW p \in [time : Int, size : 42..(42 + 255)]
  PROVE  p.time \in Int /\ \E s \in Nat : s < 256 /\ p.size = s + 42
<1>1. p.size \in 42..(42 + 255) /\ p.time \in Int
  OBVIOUS
<1> DEFINE z == p.size
<1>2. z \in Int /\ z >= 42 /\ z < 42 + 256
  BY <1>1
<1> HIDE DEF z
<1>3. z - 42 \in Nat /\ z - 42 < 256 /\ z = (z - 42) + 42
  BY <1>2
<1> QED
  BY <1>1, <1>3 DEF z

LEMMA SizeIs ==
  ASSUME NEW t, GoodTrace(t), NEW i \in 1..Len(t)
  PROVE  /\ Cloning!SizeOf(t[i]) = Cloning!Larger(Cloning!MinSize, t[i].size - 42)
         /\ t[i].time \in Int
<1>1. PICK p \in [time : Int, size : 42..(42 + 255)] : p = t[i]
  BY ElementOfSeq DEF GoodTrace
<1>2. p.time \in Int /\ \E s \in Nat : s < 256 /\ p.size = s + 42
  BY PacketIs
<1>3. PICK s \in Nat : s < 256 /\ p.size = s + 42
  BY <1>2
<1>4. s % 256 = s
  BY <1>3
<1>5. Cloning!SizeOf(t[i]) = IF s % 256 > Cloning!MinSize THEN s % 256 ELSE Cloning!MinSize
  BY <1>1, <1>3 DEF Cloning!SizeOf
<1>6. Cloning!SizeOf(t[i]) = IF s > 28 THEN s ELSE 28
  BY <1>4, <1>5 DEF Cloning!MinSize
<1> QED
  BY <1>1, <1>2, <1>3, <1>6 DEF Cloning!Larger, Cloning!MinSize

\* The message of the trace t that is the k-th, and how long after the one before it.
Due(t, k) ==
  [size |-> Cloning!Larger(Cloning!MinSize, t[Cloning!Place(t, k)].size - 42),
   after |-> IF k = 1 THEN 0 ELSE Cloning!Gap(t, Cloning!Place(t, k))]

\* A flow that has read the packet before d of t, the j-th time again, after k messages; n
\* is how often the line says, c what is left of it, w the time to the next message.
Playing(t, n, k, j, d, c, z, w, last, gap, first) ==
  /\ d \in 2..(Len(t) + 1) /\ (k = 0 <=> d = 2)
  /\ k - 1 = j * (Len(t) - 1) + (d - 3)
  /\ n >= 0 => j <= n /\ c = n - j
  /\ n < 0 => c = n
  /\ z = Cloning!SizeOf(t[d - 1])
  /\ w = IF k = 0 THEN 0 ELSE Cloning!Gap(t, d - 1)
  /\ last = t[d - 1].time
  /\ d = Len(t) + 1 => gap = t[Len(t)].time - t[Len(t) - 1].time
  /\ first = FALSE

LEMMA PlaceIs ==
  ASSUME NEW t, GoodTrace(t), NEW k \in Nat, NEW j \in Nat, NEW d \in 2..(Len(t) + 1),
         k = 0 <=> d = 2, k - 1 = j * (Len(t) - 1) + (d - 3)
  PROVE  Cloning!Place(t, k + 1) = d - 1
<1> DEFINE L == Len(t)
           M == L - 1
<1>1. L \in Nat /\ M \in Nat /\ M >= 1 /\ d \in Nat /\ d >= 2 /\ d <= L + 1 /\ L = M + 1
  <2>1. Len(t) \in Nat
    BY LenProperties DEF GoodTrace
  <2> QED
    BY <2>1 DEF GoodTrace
<1>2. k - 1 = j * M + (d - 3)
  OBVIOUS
<1>3. Cloning!Place(t, k + 1) = IF k + 1 <= L THEN k + 1 ELSE 2 + (((k + 1) - 2) % M)
  BY DEF Cloning!Place
<1> HIDE DEF M, L
<1>4. CASE j = 0
  <2>1. j * M = 0
    BY <1>1, <1>4
  <2>2. k + 1 = d - 1 /\ k + 1 <= L
    BY <1>1, <1>2, <2>1
  <2> QED
    BY <1>3, <2>2
<1>5. CASE j # 0
  <2>1. 1 * M <= j * M /\ j * M \in Nat
    BY <1>1, <1>5, TimesMore
  <2>2. j * M >= M /\ j * M \in Nat
    BY <1>1, <2>1
  <2>3. d # 2
    <3>1. ASSUME d = 2 PROVE FALSE
      <4>1. k = 0 /\ j * M = 0
        BY <1>1, <1>2, <2>2, <3>1
      <4> QED
        BY <1>1, <2>2, <4>1
    <3> QED
      BY <3>1
  <2> DEFINE i == d - 3
             p == j * M
  <2>4. i \in Nat /\ i < M /\ p \in Nat /\ p >= M /\ k - 1 = p + i
    BY <1>1, <1>2, <2>2, <2>3
  <2>5. ~(k + 1 <= L) /\ (k + 1) - 2 = p + i
    <3> HIDE DEF i, p
    <3> QED
      BY <1>1, <2>4
  <2>6. (j * M + i) % M = i
    <3>1. \A x \in Nat : x < M => (j * M + x) % M = x
      BY <1>1, TurnIs
    <3> HIDE DEF i
    <3> QED
      BY <2>4, <3>1
  <2> QED
    BY <1>1, <1>3, <2>5, <2>6
<1> QED
  BY <1>4, <1>5

\* A flow that plays has not sent all of the trace, unless it reads again.
LEMMA NotAll ==
  ASSUME NEW t, GoodTrace(t), NEW n \in Int, n >= 0, NEW k \in Nat, NEW j \in Nat, j <= n,
         NEW d \in 2..(Len(t) + 1), k - 1 = j * (Len(t) - 1) + (d - 3)
  PROVE  /\ k # Cloning!All(t, n)
         /\ j = n /\ d = Len(t) + 1 => k + 1 = Cloning!All(t, n)
<1> DEFINE L == Len(t)
           M == L - 1
<1>1. L \in Nat /\ M \in Nat /\ M >= 1 /\ d \in Nat /\ d >= 2 /\ d <= L + 1 /\ L = M + 1
  <2>1. Len(t) \in Nat
    BY LenProperties DEF GoodTrace
  <2> QED
    BY <2>1 DEF GoodTrace
<1>2. k - 1 = j * M + (d - 3) /\ Cloning!All(t, n) = L + n * M
  BY DEF Cloning!All
<1> HIDE DEF L, M
<1>3. n \in Nat
  OBVIOUS
<1>4. j * M \in Nat /\ n * M \in Nat /\ j * M <= n * M
  BY <1>1, <1>3, TimesMore
<1> DEFINE p == j * M
           q == n * M
<1>5. p \in Nat /\ q \in Nat /\ p <= q /\ k - 1 = p + (d - 3) /\ Cloning!All(t, n) = L + q
  BY <1>2, <1>4
<1>6. j = n => p = q
  OBVIOUS
<1> HIDE DEF p, q
<1>7. k # L + q
  BY <1>1, <1>5
<1>8. j = n /\ d = L + 1 => k + 1 = L + q
  BY <1>1, <1>5, <1>6
<1> QED
  BY <1>5, <1>7, <1>8 DEF L

\* What a flow with its file at d does next.
LEMMA ReadsOn ==
  ASSUME NEW t, GoodTrace(t), NEW n \in Int, NEW k \in Nat, NEW j \in Nat,
         NEW d, NEW c, NEW z, NEW w, NEW last, NEW gap, NEW first,
         Playing(t, n, k, j, d, c, z, w, last, gap, first),
         NEW held, held = [given |-> -1, device |-> d, repeatCount |-> c, size |-> z,
                         prevTime |-> last, interval |-> gap, firstPacket |-> first],
         d <= Len(t)
  PROVE  LET g == Cloning!NextPacket(t, held)
         IN /\ Playing(t, n, k + 1, j, g.device, g.repeatCount, g.size,
                       Cloning!Larger(0, g.given), g.prevTime, g.interval, g.firstPacket)
            /\ g.device # 0
<1> DEFINE g == Cloning!NextPacket(t, held)
<1>1. /\ d \in 2..(Len(t) + 1) /\ (k = 0 <=> d = 2) /\ k - 1 = j * (Len(t) - 1) + (d - 3)
      /\ n >= 0 => j <= n /\ c = n - j
      /\ n < 0 => c = n
      /\ last = t[d - 1].time /\ first = FALSE
  BY DEF Playing
<1>2. Len(t) \in Nat /\ d \in Nat /\ d >= 2
  <2>1. Len(t) \in Nat
    BY LenProperties DEF GoodTrace
  <2> QED
    BY <1>1, <2>1
<1>3. /\ g.given = t[d].time - last /\ g.interval = t[d].time - last /\ g.firstPacket = FALSE
      /\ g.device = d + 1 /\ g.repeatCount = c
      /\ g.size = Cloning!SizeOf(t[d]) /\ g.prevTime = t[d].time
  BY <1>1 DEF Cloning!NextPacket
<1> HIDE DEF g
<1>4. d + 1 \in 2..(Len(t) + 1) /\ (k + 1 = 0 <=> d + 1 = 2) /\ (d + 1) - 1 = d
  BY <1>2
<1>5. (k + 1) - 1 = j * (Len(t) - 1) + ((d + 1) - 3)
  <2> DEFINE p == j * (Len(t) - 1)
  <2>1. k - 1 = p + (d - 3) /\ p \in Int
    BY <1>1, <1>2
  <2> HIDE DEF p
  <2>2. (k + 1) - 1 = p + ((d + 1) - 3)
    BY <1>2, <2>1
  <2> QED
    BY <2>2 DEF p
<1>6. Cloning!Larger(0, g.given) = Cloning!Gap(t, d)
  BY <1>1, <1>3 DEF Cloning!Gap
<1>7. d + 1 = Len(t) + 1 => g.interval = t[Len(t)].time - t[Len(t) - 1].time
  <2> HAVE d + 1 = Len(t) + 1
  <2>1. d = Len(t)
    BY <1>2
  <2> QED
    BY <1>1, <1>3, <2>1
<1>8. g.size = Cloning!SizeOf(t[(d + 1) - 1]) /\ g.prevTime = t[(d + 1) - 1].time
  BY <1>3, <1>4
<1>9. Cloning!Larger(0, g.given) = IF k + 1 = 0 THEN 0 ELSE Cloning!Gap(t, (d + 1) - 1)
  BY <1>4, <1>6
<1>10. Playing(t, n, k + 1, j, d + 1, c, g.size, Cloning!Larger(0, g.given), g.prevTime,
               g.interval, FALSE)
  BY <1>1, <1>4, <1>5, <1>7, <1>8, <1>9 DEF Playing
<1>11. g.device # 0
  BY <1>2, <1>3
<1> QED
  BY <1>3, <1>10, <1>11 DEF g

\* At the end of the file it begins again, or stops.
LEMMA ReadsAgain ==
  ASSUME NEW t, GoodTrace(t), NEW n \in Int, NEW k \in Nat, NEW j \in Nat,
         NEW d, NEW c, NEW z, NEW w, NEW last, NEW gap, NEW first,
         Playing(t, n, k, j, d, c, z, w, last, gap, first),
         NEW held, held = [given |-> -1, device |-> d, repeatCount |-> c, size |-> z,
                         prevTime |-> last, interval |-> gap, firstPacket |-> first],
         ~(d <= Len(t))
  PROVE  LET g == Cloning!EndOfFile(t, held)
         IN \/ /\ g.given = -1 /\ g.device = 0
               /\ n >= 0 /\ k + 1 = Cloning!All(t, n)
            \/ /\ Playing(t, n, k + 1, j + 1, g.device, g.repeatCount, g.size,
                          Cloning!Larger(0, g.given), g.prevTime, g.interval, g.firstPacket)
               /\ g.device # 0
<1> DEFINE g == Cloning!EndOfFile(t, held)
           rc == IF c > 0 THEN c - 1 ELSE c
<1>1. /\ d \in 2..(Len(t) + 1) /\ (k = 0 <=> d = 2) /\ k - 1 = j * (Len(t) - 1) + (d - 3)
      /\ n >= 0 => j <= n /\ c = n - j
      /\ n < 0 => c = n
      /\ d = Len(t) + 1 => gap = t[Len(t)].time - t[Len(t) - 1].time
      /\ first = FALSE
  BY DEF Playing
<1>2. Len(t) \in Nat /\ Len(t) >= 2
  <2>1. Len(t) \in Nat
    BY LenProperties DEF GoodTrace
  <2> QED
    BY <2>1 DEF GoodTrace
<1>3. d = Len(t) + 1 /\ c \in Int
  BY <1>1, <1>2
<1>4. gap # Second
  BY <1>1, <1>3 DEF GoodTrace
<1>5. CASE c = 0
  <2>1. g = [held EXCEPT !.device = 0]
    BY <1>1, <1>4, <1>5 DEF Cloning!EndOfFile
  <2>2. g.given = -1 /\ g.device = 0
    BY <2>1
  <2>3. n >= 0 /\ j = n /\ j <= n
    BY <1>1, <1>5
  <2>4. k + 1 = Cloning!All(t, n)
    BY <1>1, <1>3, <2>3, NotAll
  <2> QED
    BY <2>2, <2>3, <2>4
<1>6. CASE c # 0
  <2> DEFINE again == [held EXCEPT !.repeatCount = IF @ > 0 THEN @ - 1 ELSE @]
  <2>1. g = Cloning!RestartPcapRead(t, again)
    BY <1>1, <1>4, <1>6 DEF Cloning!EndOfFile
  <2>2. g = [again EXCEPT !.given = t[2].time - t[1].time, !.device = 3,
                          !.size = Cloning!SizeOf(t[2]), !.prevTime = t[2].time]
    BY <1>2, <2>1 DEF Cloning!RestartPcapRead
  <2>3. /\ g.given = t[2].time - t[1].time /\ g.device = 3 /\ g.size = Cloning!SizeOf(t[2])
        /\ g.prevTime = t[2].time /\ g.repeatCount = rc /\ g.interval = gap
        /\ g.firstPacket = FALSE
    BY <1>1, <2>2
  <2> HIDE DEF g, rc
  <2>4. 3 \in 2..(Len(t) + 1) /\ (k + 1 = 0 <=> 3 = 2) /\ 3 - 1 = 2
    BY <1>2
  <2>5. (k + 1) - 1 = (j + 1) * (Len(t) - 1) + (3 - 3)
    <3> DEFINE M == Len(t) - 1
               p == j * M
    <3>1. M \in Nat /\ Len(t) = M + 1
      BY <1>2
    <3>2. k - 1 = p + (d - 3) /\ p \in Int
      BY <1>1, <1>2
    <3>3. (j + 1) * M = p + M
      BY <3>1, TimesMore
    <3> HIDE DEF p, M
    <3>4. (k + 1) - 1 = p + M
      BY <1>3, <3>1, <3>2
    <3> QED
      BY <3>1, <3>2, <3>3, <3>4 DEF M
  <2>6. n >= 0 => j + 1 <= n /\ rc = n - (j + 1)
    BY <1>1, <1>3, <1>6 DEF rc
  <2>7. n < 0 => rc = n
    BY <1>1 DEF rc
  <2>8. Cloning!Larger(0, g.given) = Cloning!Gap(t, 2)
    BY <2>3 DEF Cloning!Gap
  <2>9. 3 = Len(t) + 1 => gap = t[Len(t)].time - t[Len(t) - 1].time
    BY <1>1, <1>3
  <2>10. Cloning!Larger(0, g.given) = IF k + 1 = 0 THEN 0 ELSE Cloning!Gap(t, 3 - 1)
    BY <2>4, <2>8
  <2>11. g.size = Cloning!SizeOf(t[3 - 1]) /\ g.prevTime = t[3 - 1].time
    BY <2>3, <2>4
  <2>12. Playing(t, n, k + 1, j + 1, 3, rc, g.size, Cloning!Larger(0, g.given), g.prevTime,
                 gap, FALSE)
    BY <2>4, <2>5, <2>6, <2>7, <2>9, <2>10, <2>11 DEF Playing
  <2>13. 3 # 0
    OBVIOUS
  <2> QED
    BY <2>3, <2>12, <2>13 DEF g
<1> QED
  BY <1>5, <1>6

\* What the flow's k-th message was is what the trace has there.
LEMMA DueIs ==
  ASSUME NEW t, GoodTrace(t), NEW n, NEW k \in Nat, NEW j \in Nat,
         NEW d, NEW c, NEW z, NEW w, NEW last, NEW gap, NEW first,
         Playing(t, n, k, j, d, c, z, w, last, gap, first)
  PROVE  [size |-> z, after |-> w] = Due(t, k + 1)
<1>1. /\ d \in 2..(Len(t) + 1) /\ (k = 0 <=> d = 2)
      /\ k - 1 = j * (Len(t) - 1) + (d - 3)
      /\ z = Cloning!SizeOf(t[d - 1])
      /\ w = IF k = 0 THEN 0 ELSE Cloning!Gap(t, d - 1)
  BY DEF Playing
<1>2. Cloning!Place(t, k + 1) = d - 1
  BY <1>1, PlaceIs
<1>3. d - 1 \in 1..Len(t)
  <2>1. Len(t) \in Nat
    BY LenProperties DEF GoodTrace
  <2> QED
    BY <1>1, <2>1
<1>4. z = Cloning!Larger(Cloning!MinSize, t[d - 1].size - 42)
  BY <1>1, <1>3, SizeIs
<1>5. k + 1 = 1 <=> k = 0
  OBVIOUS
<1>6. w = IF k + 1 = 1 THEN 0 ELSE Cloning!Gap(t, d - 1)
  BY <1>1, <1>5
<1> QED
  BY <1>2, <1>4, <1>6 DEF Due

\* A flow whose file was just opened reads the first packet, and sends at once.
LEMMA ReadsFirst ==
  ASSUME NEW t, GoodTrace(t), NEW n \in Int, NEW z, NEW last, NEW gap, NEW first,
         Second \in Nat,
         NEW held, held = [[given |-> -1, device |-> 0, repeatCount |-> n, size |-> z,
                          prevTime |-> last, interval |-> gap, firstPacket |-> first]
                         EXCEPT !.device = 1, !.interval = Second, !.firstPacket = TRUE]
  PROVE  LET g == Cloning!NextPacket(t, held)
         IN /\ Playing(t, n, 0, 0, g.device, g.repeatCount, g.size, 0, g.prevTime,
                       g.interval, g.firstPacket)
            /\ ~(g.given < 0)
<1> DEFINE g == Cloning!NextPacket(t, held)
<1>1. /\ g.given = Second /\ g.firstPacket = FALSE /\ g.device = 2 /\ g.repeatCount = n
      /\ g.size = Cloning!SizeOf(t[1]) /\ g.prevTime = t[1].time /\ g.interval = Second
  BY DEF Cloning!NextPacket
<1> HIDE DEF g
<1>2. Len(t) \in Nat /\ Len(t) >= 2
  <2>1. Len(t) \in Nat
    BY LenProperties DEF GoodTrace
  <2> QED
    BY <2>1 DEF GoodTrace
<1>3. 2 \in 2..(Len(t) + 1) /\ 2 # Len(t) + 1 /\ 2 - 1 = 1
  BY <1>2
<1>4. 0 - 1 = 0 * (Len(t) - 1) + (2 - 3)
  BY <1>2
<1>5. n >= 0 => 0 <= n /\ n = n - 0
  OBVIOUS
<1>6. Playing(t, n, 0, 0, 2, n, Cloning!SizeOf(t[1]), 0, t[1].time, Second, FALSE)
  BY <1>3, <1>4, <1>5 DEF Playing
<1>7. Playing(t, n, 0, 0, g.device, g.repeatCount, g.size, 0, g.prevTime, g.interval,
              g.firstPacket)
  BY <1>1, <1>6
<1>8. ~(g.given < 0)
  BY <1>1
<1> QED
  BY <1>7, <1>8 DEF g

\* Where a flow is: it plays, it has sent all, or it is not on.
Follows(t, n, st, k, m, d, c, z, w, last, gap, first) ==
  /\ st \in {"idle", "on", "off"}
  /\ k \in Nat
  /\ k > 0 => m = Due(t, k)
  /\ st = "on" => \E j \in Nat : Playing(t, n, k, j, d, c, z, w, last, gap, first)
  /\ st = "off" => n >= 0 /\ k = Cloning!All(t, n)

FlowOk(f) ==
  Follows(Recordings[s1[f].file], Cloning!Repeats(s1[f]), s2[f], s7[f], s8[f], s3[f], s4[f],
          s5[f], s6[f], s9, s10, s11)

IsOfFlow(s) == s = [x \in Cloners |-> s[x]]
OfFlows ==
  /\ s1 \in [Cloners -> CloneLines]
  /\ IsOfFlow(s2) /\ IsOfFlow(s3) /\ IsOfFlow(s4) /\ IsOfFlow(s5) /\ IsOfFlow(s6)
  /\ IsOfFlow(s7) /\ IsOfFlow(s8)

\* One flow at most is on, and reads the static variables; each follows its trace.
OneOn == \A f, g \in Cloners : s2[f] = "on" /\ s2[g] = "on" => f = g
Tracked == {f \in Cloners \ Modified : s1[f].file \in DOMAIN Recordings}
TraceInv == OfFlows /\ OneOn /\ \A f \in Tracked : FlowOk(f)

LEMMA TraceIs ==
  ASSUME TraceAssumption, OfFlows, NEW f \in Tracked
  PROVE  /\ GoodTrace(Recordings[s1[f].file]) /\ Cloning!Repeats(s1[f]) \in Int
         /\ f \in Cloners /\ f \notin Modified /\ s1[f].file \in DOMAIN Recordings
         /\ Second \in Nat
<1>1. f \in Cloners /\ f \notin Modified /\ s1[f].file \in DOMAIN Recordings
  BY DEF Tracked
<1>2. s1[f] \in CloneLines
  BY <1>1 DEF OfFlows
<1>3. s1[f].count \in Int /\ Second \in Nat
  BY <1>2 DEF TraceAssumption
<1>4. Cloning!Repeats(s1[f]) \in Int
  BY <1>3 DEF Cloning!Repeats
<1>5. GoodTrace(Recordings[s1[f].file])
  BY <1>1 DEF TraceAssumption, GoodTrace
<1> QED
  BY <1>1, <1>3, <1>4, <1>5

LEMMA TraceBegins ==
  ASSUME Cloning!Init
  PROVE  TraceInv
<1>1. /\ s1 \in [Cloners -> CloneLines]
      /\ s2 = [f \in Cloners |-> "idle"] /\ s3 = [f \in Cloners |-> 0]
      /\ s4 = [f \in Cloners |-> Cloning!Repeats(s1[f])]
      /\ s5 = [f \in Cloners |-> 0] /\ s6 = [f \in Cloners |-> 0]
      /\ s7 = [f \in Cloners |-> 0]
      /\ s8 = [f \in Cloners |-> [size |-> 0, after |-> 0]]
  BY DEF Cloning!Init
<1>2. OfFlows
  BY <1>1 DEF OfFlows, IsOfFlow
<1>3. OneOn
  BY <1>1 DEF OneOn
<1>4. ASSUME NEW f \in Tracked PROVE FlowOk(f)
  <2>1. f \in Cloners
    BY DEF Tracked
  <2>2. s2[f] = "idle" /\ s7[f] = 0
    BY <1>1, <2>1
  <2> QED
    BY <2>2 DEF FlowOk, Follows
<1> QED
  BY <1>2, <1>3, <1>4 DEF TraceInv

LEMMA TraceMeans ==
  ASSUME TraceAssumption, TraceInv
  PROVE  Cloning!AsRecorded
<1> SUFFICES ASSUME NEW f \in Cloners \ Modified, s1[f].file \in DOMAIN Recordings
             PROVE  LET t == Recordings[s1[f].file]
                        n == Cloning!Repeats(s1[f])
                        k == s7[f]
                    IN /\ k > 0 => s8[f] = Due(t, k)
                       /\ s2[f] = "off" <=> (s2[f] # "idle" /\ n >= 0
                                               /\ k = Cloning!All(t, n))
  BY DEF Cloning!AsRecorded, Due
<1> DEFINE t == Recordings[s1[f].file]
           n == Cloning!Repeats(s1[f])
           k == s7[f]
<1>1. f \in Tracked
  BY DEF Tracked
<1>2. GoodTrace(t) /\ n \in Int
  BY <1>1, TraceIs DEF TraceInv
<1>3. Follows(t, n, s2[f], k, s8[f], s3[f], s4[f], s5[f], s6[f], s9, s10, s11)
  BY <1>1 DEF TraceInv, FlowOk
<1> HIDE DEF t, n, k
<1>4. ASSUME s2[f] = "on", n >= 0 PROVE k # Cloning!All(t, n)
  <2>1. k \in Nat
    BY <1>3 DEF Follows
  <2>2. PICK j \in Nat :
          Playing(t, n, k, j, s3[f], s4[f], s5[f], s6[f], s9, s10, s11)
    BY <1>3, <1>4 DEF Follows
  <2>3. /\ s3[f] \in 2..(Len(t) + 1) /\ j <= n
        /\ k - 1 = j * (Len(t) - 1) + (s3[f] - 3)
    BY <1>4, <2>2 DEF Playing
  <2> QED
    BY <1>2, <1>4, <2>1, <2>3, NotAll
<1>5. /\ k > 0 => s8[f] = Due(t, k)
      /\ s2[f] \in {"idle", "on", "off"}
      /\ s2[f] = "off" => n >= 0 /\ k = Cloning!All(t, n)
  BY <1>3 DEF Follows
<1> QED
  BY <1>4, <1>5 DEF t, n, k

\* An action of a flow changes no variable of another flow.
Moves(g) ==
  /\ s1' = s1 /\ OfFlows'
  /\ \A x \in Cloners \ {g} :
       /\ s2'[x] = s2[x] /\ s3'[x] = s3[x] /\ s4'[x] = s4[x] /\ s5'[x] = s5[x]
       /\ s6'[x] = s6[x] /\ s7'[x] = s7[x] /\ s8'[x] = s8[x]

\* s becomes r, which differs at g only.
Elsewhere(s, r, g) == IsOfFlow(r) /\ \A x \in Cloners \ {g} : r[x] = s[x]

LEMMA Excepted ==
  ASSUME NEW s, IsOfFlow(s), NEW g \in Cloners
  PROVE  /\ Elsewhere(s, s, g)
         /\ \A v : LET r == [s EXCEPT ![g] = v] IN Elsewhere(s, r, g) /\ r[g] = v
<1>1. \A x \in Cloners : x \in DOMAIN s
  BY DEF IsOfFlow
<1>2. ASSUME NEW v
      PROVE  LET r == [s EXCEPT ![g] = v] IN Elsewhere(s, r, g) /\ r[g] = v
  <2> DEFINE r == [s EXCEPT ![g] = v]
  <2>1. r[g] = v /\ \A x \in Cloners \ {g} : r[x] = s[x]
    BY <1>1
  <2>2. DOMAIN s = Cloners
    BY DEF IsOfFlow
  <2>3. r = [x \in Cloners |-> r[x]]
    BY <2>2
  <2> QED
    BY <2>1, <2>3 DEF Elsewhere, IsOfFlow
<1> QED
  BY <1>2 DEF Elsewhere

LEMMA MovesIf ==
  ASSUME OfFlows, NEW g \in Cloners, s1' = s1,
         Elsewhere(s2, s2', g), Elsewhere(s3, s3', g), Elsewhere(s4, s4', g),
         Elsewhere(s5, s5', g), Elsewhere(s6, s6', g), Elsewhere(s7, s7', g),
         Elsewhere(s8, s8', g)
  PROVE  Moves(g)
<1>1. OfFlows'
  BY DEF OfFlows, Elsewhere, IsOfFlow
<1> QED
  BY <1>1 DEF Moves, Elsewhere

LEMMA KeepIs ==
  ASSUME OfFlows, NEW f \in Cloners, NEW r, Cloning!Keep(f, r)
  PROVE  /\ Elsewhere(s3, s3', f) /\ Elsewhere(s4, s4', f) /\ Elsewhere(s5, s5', f)
         /\ s3'[f] = r.device /\ s4'[f] = r.repeatCount /\ s5'[f] = r.size
         /\ s9' = r.prevTime /\ s10' = r.interval /\ s11' = r.firstPacket
<1>1. /\ s3' = [s3 EXCEPT ![f] = r.device] /\ s4' = [s4 EXCEPT ![f] = r.repeatCount]
      /\ s5' = [s5 EXCEPT ![f] = r.size]
      /\ s9' = r.prevTime /\ s10' = r.interval /\ s11' = r.firstPacket
  BY DEF Cloning!Keep
<1>2. IsOfFlow(s3) /\ IsOfFlow(s4) /\ IsOfFlow(s5)
  BY DEF OfFlows
<1>3. Elsewhere(s3, s3', f) /\ s3'[f] = r.device
  BY <1>1, <1>2, Excepted
<1>4. Elsewhere(s4, s4', f) /\ s4'[f] = r.repeatCount
  BY <1>1, <1>2, Excepted
<1>5. Elsewhere(s5, s5', f) /\ s5'[f] = r.size
  BY <1>1, <1>2, Excepted
<1> QED
  BY <1>1, <1>3, <1>4, <1>5

\* Only a flow that is on, or that nobody keeps from going on, moves the statics.
LEMMA OnMoves ==
  ASSUME TraceInv, NEW g \in Cloners, Cloning!On(g)
  PROVE  /\ Moves(g) /\ \A h \in Cloners : s2[h] # "on"
         /\ s2[g] \in {"idle", "off"} /\ s7'[g] = 0 /\ s6'[g] = 0
         /\ LET r == Cloning!GetPktInterval(g, 0, Cloning!Repeats(s1[g]))
            IN /\ s3'[g] = r.device /\ s4'[g] = r.repeatCount /\ s5'[g] = r.size
               /\ s9' = r.prevTime /\ s10' = r.interval /\ s11' = r.firstPacket
               /\ s2'[g] = IF r.given < 0 THEN "silent" ELSE "on"
<1> DEFINE r == Cloning!GetPktInterval(g, 0, Cloning!Repeats(s1[g]))
           st == IF r.given < 0 THEN "silent" ELSE "on"
<1>1. /\ s2[g] \in {"idle", "off"} /\ \A h \in Cloners : s2[h] # "on"
      /\ Cloning!Keep(g, r) /\ s2' = [s2 EXCEPT ![g] = st]
      /\ s6' = [s6 EXCEPT ![g] = 0] /\ s7' = [s7 EXCEPT ![g] = 0]
      /\ s1' = s1 /\ s8' = s8
  BY DEF Cloning!On
<1>2. /\ OfFlows /\ IsOfFlow(s2) /\ IsOfFlow(s6) /\ IsOfFlow(s7) /\ IsOfFlow(s8)
  BY DEF TraceInv, OfFlows
<1> HIDE DEF r, st
<1>3. /\ Elsewhere(s3, s3', g) /\ Elsewhere(s4, s4', g) /\ Elsewhere(s5, s5', g)
      /\ s3'[g] = r.device /\ s4'[g] = r.repeatCount /\ s5'[g] = r.size
      /\ s9' = r.prevTime /\ s10' = r.interval /\ s11' = r.firstPacket
  BY <1>1, <1>2, KeepIs
<1>4. Elsewhere(s2, s2', g) /\ s2'[g] = st
  BY <1>1, <1>2, Excepted
<1>5. Elsewhere(s6, s6', g) /\ s6'[g] = 0
  BY <1>1, <1>2, Excepted
<1>6. Elsewhere(s7, s7', g) /\ s7'[g] = 0
  BY <1>1, <1>2, Excepted
<1>7. Elsewhere(s8, s8', g)
  BY <1>1, <1>2, Excepted
<1>8. Moves(g)
  BY <1>1, <1>2, <1>3, <1>4, <1>5, <1>6, <1>7, MovesIf
<1> QED
  BY <1>1, <1>3, <1>4, <1>5, <1>6, <1>8 DEF r, st

LEMMA OffMoves ==
  ASSUME TraceInv, NEW g \in Cloners, Cloning!Off(g)
  PROVE  /\ Moves(g) /\ s2'[g] = "idle"
         /\ UNCHANGED <<s3, s4, s5, s6, s7, s8, s9, s10, s11>>
<1>1. /\ s2' = [s2 EXCEPT ![g] = "idle"] /\ s1' = s1
      /\ UNCHANGED <<s3, s4, s5, s6, s7, s8, s9, s10, s11>>
  BY DEF Cloning!Off, Cloning!statics
<1>2. OfFlows /\ IsOfFlow(s2) /\ IsOfFlow(s3) /\ IsOfFlow(s4) /\ IsOfFlow(s5)
      /\ IsOfFlow(s6) /\ IsOfFlow(s7) /\ IsOfFlow(s8)
  BY DEF TraceInv, OfFlows
<1>3. Elsewhere(s2, s2', g) /\ s2'[g] = "idle"
  BY <1>1, <1>2, Excepted
<1>4. /\ Elsewhere(s3, s3', g) /\ Elsewhere(s4, s4', g) /\ Elsewhere(s5, s5', g)
      /\ Elsewhere(s6, s6', g) /\ Elsewhere(s7, s7', g) /\ Elsewhere(s8, s8', g)
  BY <1>1, <1>2, Excepted
<1>5. Moves(g)
  BY <1>1, <1>2, <1>3, <1>4, MovesIf
<1> QED
  BY <1>1, <1>3, <1>5

\* The rest of OnTxTimeout and of Mod: nothing is on but g, before and after.
LEMMA TimeoutMoves ==
  ASSUME TraceInv, NEW g \in Cloners, Cloning!OnTxTimeout(g)
  PROVE  /\ Moves(g) /\ s2[g] = "on" /\ s7'[g] = s7[g] + 1
         /\ s8'[g] = [size |-> s5[g], after |-> s6[g]]
         /\ s3[g] # -1 =>
              LET r == Cloning!Call(g)
              IN /\ s3'[g] = r.device /\ s4'[g] = r.repeatCount /\ s5'[g] = r.size
                 /\ s9' = r.prevTime /\ s10' = r.interval /\ s11' = r.firstPacket
                 /\ IF r.given < 0 /\ r.device = 0
                    THEN s2'[g] = "off"
                    ELSE s6'[g] = Cloning!Larger(0, r.given) /\ s2'[g] = "on"
<1> DEFINE r == Cloning!Call(g)
           m == [size |-> s5[g], after |-> s6[g]]
           k == s7[g] + 1
<1>1. /\ s2[g] = "on" /\ s1' = s1
      /\ s7' = [s7 EXCEPT ![g] = k] /\ s8' = [s8 EXCEPT ![g] = m]
  BY DEF Cloning!OnTxTimeout, Cloning!GetPktSize
<1>2. OfFlows /\ IsOfFlow(s2) /\ IsOfFlow(s3) /\ IsOfFlow(s4) /\ IsOfFlow(s5)
      /\ IsOfFlow(s6) /\ IsOfFlow(s7) /\ IsOfFlow(s8)
  BY DEF TraceInv, OfFlows
<1> HIDE DEF r, m, k
<1>3. Elsewhere(s7, s7', g) /\ s7'[g] = k
  BY <1>1, <1>2, Excepted
<1>4. Elsewhere(s8, s8', g) /\ s8'[g] = m
  BY <1>1, <1>2, Excepted
<1>5. CASE s3[g] = -1
  <2>1. UNCHANGED <<s2, s3, s4, s5, s6>>
    BY <1>5 DEF Cloning!OnTxTimeout
  <2>2. /\ Elsewhere(s2, s2', g) /\ Elsewhere(s3, s3', g) /\ Elsewhere(s4, s4', g)
        /\ Elsewhere(s5, s5', g) /\ Elsewhere(s6, s6', g)
    BY <1>2, <2>1, Excepted
  <2>3. Moves(g)
    BY <1>1, <1>2, <1>3, <1>4, <2>2, MovesIf
  <2> QED
    BY <1>1, <1>3, <1>4, <1>5, <2>3 DEF k, m
<1>6. CASE s3[g] # -1
  <2>1. Cloning!Keep(g, r) /\ Cloning!GetNextInterval(g, r)
    BY <1>6 DEF Cloning!OnTxTimeout, r
  <2>2. /\ Elsewhere(s3, s3', g) /\ Elsewhere(s4, s4', g) /\ Elsewhere(s5, s5', g)
        /\ s3'[g] = r.device /\ s4'[g] = r.repeatCount /\ s5'[g] = r.size
        /\ s9' = r.prevTime /\ s10' = r.interval /\ s11' = r.firstPacket
    BY <1>2, <2>1, KeepIs
  <2>3. CASE r.given < 0 /\ r.device = 0
    <3>1. s2' = [s2 EXCEPT ![g] = "off"] /\ s6' = s6
      BY <2>1, <2>3 DEF Cloning!GetNextInterval
    <3>2. Elsewhere(s2, s2', g) /\ s2'[g] = "off"
      BY <1>2, <3>1, Excepted
    <3>3. Elsewhere(s6, s6', g)
      BY <1>2, <3>1, Excepted
    <3>4. Moves(g)
      BY <1>1, <1>2, <1>3, <1>4, <2>2, <3>2, <3>3, MovesIf
    <3> QED
      BY <1>1, <1>3, <1>4, <2>2, <2>3, <3>2, <3>4 DEF k, m, r
  <2>4. CASE ~(r.given < 0 /\ r.device = 0)
    <3> DEFINE w == Cloning!Larger(0, r.given)
    <3>1. s6' = [s6 EXCEPT ![g] = w] /\ s2' = s2
      BY <2>1, <2>4 DEF Cloning!GetNextInterval
    <3> HIDE DEF w
    <3>2. Elsewhere(s6, s6', g) /\ s6'[g] = w
      BY <1>2, <3>1, Excepted
    <3>3. Elsewhere(s2, s2', g) /\ s2'[g] = "on"
      BY <1>1, <1>2, <3>1, Excepted
    <3>4. Moves(g)
      BY <1>1, <1>2, <1>3, <1>4, <2>2, <3>2, <3>3, MovesIf
    <3> QED
      BY <1>1, <1>3, <1>4, <2>2, <2>4, <3>2, <3>3, <3>4 DEF k, m, r, w
  <2> QED
    BY <2>3, <2>4
<1> QED
  BY <1>5, <1>6

LEMMA ModMoves ==
  ASSUME TraceInv, NEW g \in Cloners, Cloning!Mod(g)
  PROVE  Moves(g) /\ s2[g] = "on" /\ g \in Modified
<1> DEFINE r == Cloning!Call(g)
<1>1. /\ s2[g] = "on" /\ g \in Modified /\ s1' = s1 /\ s7' = s7 /\ s8' = s8
      /\ Cloning!Keep(g, r)
      /\ \/ s2' = [s2 EXCEPT ![g] = "silent"] /\ s6' = s6
         \/ s2' = s2 /\ \E v : s6' = [s6 EXCEPT ![g] = v]
  BY DEF Cloning!Mod
<1>2. OfFlows /\ IsOfFlow(s2) /\ IsOfFlow(s6) /\ IsOfFlow(s7) /\ IsOfFlow(s8)
  BY DEF TraceInv, OfFlows
<1> HIDE DEF r
<1>3. Elsewhere(s3, s3', g) /\ Elsewhere(s4, s4', g) /\ Elsewhere(s5, s5', g)
  BY <1>1, <1>2, KeepIs
<1>4. Elsewhere(s7, s7', g) /\ Elsewhere(s8, s8', g)
  BY <1>1, <1>2, Excepted
<1>5. Elsewhere(s2, s2', g) /\ Elsewhere(s6, s6', g)
  BY <1>1, <1>2, Excepted
<1>6. Moves(g)
  BY <1>1, <1>2, <1>3, <1>4, <1>5, MovesIf
<1> QED
  BY <1>1, <1>6

LEMMA CallIs ==
  ASSUME NEW f \in Cloners, s1[f].file \in DOMAIN Recordings, s3[f] # 0,
         NEW held, held = [given |-> -1, device |-> s3[f], repeatCount |-> s4[f],
                         size |-> s5[f], prevTime |-> s9, interval |-> s10,
                         firstPacket |-> s11]
  PROVE  LET t == Recordings[s1[f].file]
         IN Cloning!Call(f) = IF s3[f] <= Len(t) THEN Cloning!NextPacket(t, held)
                              ELSE Cloning!EndOfFile(t, held)
BY DEF Cloning!Call, Cloning!GetPktInterval, Cloning!OpenPcapDevice

\* What an ON does to the flow it is for.
LEMMA OnFollows ==
  ASSUME TraceAssumption, TraceInv, NEW g \in Tracked, Cloning!On(g)
  PROVE  FlowOk(g)'
<1> DEFINE t == Recordings[s1[g].file]
           n == Cloning!Repeats(s1[g])
           r == Cloning!GetPktInterval(g, 0, n)
           before == [given |-> -1, device |-> 0, repeatCount |-> n, size |-> s5[g],
                      prevTime |-> s9, interval |-> s10, firstPacket |-> s11]
           held == [before EXCEPT !.device = 1, !.interval = Second, !.firstPacket = TRUE]
<1>1. /\ GoodTrace(t) /\ n \in Int /\ g \in Cloners /\ s1[g].file \in DOMAIN Recordings
      /\ Second \in Nat
  BY TraceIs DEF TraceInv
<1>2. /\ s1' = s1 /\ s7'[g] = 0 /\ s6'[g] = 0
      /\ s3'[g] = r.device /\ s4'[g] = r.repeatCount /\ s5'[g] = r.size
      /\ s9' = r.prevTime /\ s10' = r.interval /\ s11' = r.firstPacket
      /\ s2'[g] = IF r.given < 0 THEN "silent" ELSE "on"
  BY <1>1, OnMoves DEF Moves
<1>3. 1 <= Len(t)
  BY <1>1 DEF GoodTrace
<1>4. r = Cloning!NextPacket(t, held)
  <2>1. r = IF held.device <= Len(t) THEN Cloning!NextPacket(t, held)
            ELSE Cloning!EndOfFile(t, held)
    BY <1>1, Zenon DEF Cloning!GetPktInterval, Cloning!OpenPcapDevice
  <2>2. held.device = 1
    OBVIOUS
  <2> HIDE DEF held, r, t
  <2> QED
    BY <1>3, <2>1, <2>2
<1> HIDE DEF t, n, r
<1>5. /\ Playing(t, n, 0, 0, r.device, r.repeatCount, r.size, 0, r.prevTime, r.interval,
                 r.firstPacket)
      /\ ~(r.given < 0)
  <2>1. held = [[given |-> -1, device |-> 0, repeatCount |-> n, size |-> s5[g],
                prevTime |-> s9, interval |-> s10, firstPacket |-> s11]
               EXCEPT !.device = 1, !.interval = Second, !.firstPacket = TRUE]
    OBVIOUS
  <2> HIDE DEF held
  <2> QED
    BY <1>1, <1>4, <2>1, ReadsFirst
<1> HIDE DEF before, held
<1>6. s2'[g] = "on"
  <2>1. ~(r.given < 0)
    BY <1>5
  <2> QED
    BY <1>2, <2>1
<1>7. Playing(t, n, s7'[g], 0, s3'[g], s4'[g], s5'[g], s6'[g], s9', s10', s11')
  BY <1>2, <1>5
<1>8. Follows(t, n, s2'[g], s7'[g], s8'[g], s3'[g], s4'[g], s5'[g], s6'[g], s9', s10', s11')
  BY <1>2, <1>6, <1>7 DEF Follows
<1> QED
  BY <1>2, <1>8 DEF FlowOk, t, n

\* What the timer of a flow does to it.
LEMMA TimeoutFollows ==
  ASSUME TraceAssumption, TraceInv, NEW g \in Tracked, Cloning!OnTxTimeout(g)
  PROVE  FlowOk(g)'
<1> DEFINE t == Recordings[s1[g].file]
           n == Cloning!Repeats(s1[g])
           k == s7[g]
           r == Cloning!Call(g)
           held == [given |-> -1, device |-> s3[g], repeatCount |-> s4[g], size |-> s5[g],
                   prevTime |-> s9, interval |-> s10, firstPacket |-> s11]
<1>1. GoodTrace(t) /\ n \in Int /\ g \in Cloners /\ s1[g].file \in DOMAIN Recordings
  BY TraceIs DEF TraceInv
<1>2. Follows(t, n, s2[g], k, s8[g], s3[g], s4[g], s5[g], s6[g], s9, s10, s11)
  BY DEF TraceInv, FlowOk
<1>3. /\ s1' = s1 /\ s2[g] = "on" /\ s7'[g] = k + 1
      /\ s8'[g] = [size |-> s5[g], after |-> s6[g]]
      /\ s3[g] # -1 =>
           /\ s3'[g] = r.device /\ s4'[g] = r.repeatCount /\ s5'[g] = r.size
           /\ s9' = r.prevTime /\ s10' = r.interval /\ s11' = r.firstPacket
           /\ IF r.given < 0 /\ r.device = 0
              THEN s2'[g] = "off"
              ELSE s6'[g] = Cloning!Larger(0, r.given) /\ s2'[g] = "on"
  BY <1>1, TimeoutMoves DEF Moves
<1> HIDE DEF t, n, k, r, held
<1>4. k \in Nat
  BY <1>2 DEF Follows
<1>5. PICK j \in Nat : Playing(t, n, k, j, s3[g], s4[g], s5[g], s6[g], s9, s10, s11)
  BY <1>2, <1>3 DEF Follows
<1>6. s3[g] \in 2..(Len(t) + 1) /\ s3[g] # 0 /\ s3[g] # -1
  <2>1. s3[g] \in 2..(Len(t) + 1)
    BY <1>5 DEF Playing
  <2> QED
    BY <2>1
<1>7. s8'[g] = Due(t, k + 1)
  BY <1>1, <1>3, <1>4, <1>5, DueIs
<1>8. r = IF s3[g] <= Len(t) THEN Cloning!NextPacket(t, held) ELSE Cloning!EndOfFile(t, held)
  BY <1>1, <1>6, CallIs DEF r, t, held
<1>9. held = [given |-> -1, device |-> s3[g], repeatCount |-> s4[g], size |-> s5[g],
             prevTime |-> s9, interval |-> s10, firstPacket |-> s11]
  BY DEF held
<1>10. \/ r.given = -1 /\ r.device = 0 /\ n >= 0 /\ k + 1 = Cloning!All(t, n)
       \/ /\ \E i \in Nat :
               Playing(t, n, k + 1, i, r.device, r.repeatCount, r.size,
                       Cloning!Larger(0, r.given), r.prevTime, r.interval, r.firstPacket)
          /\ r.device # 0
  <2>1. CASE s3[g] <= Len(t)
    <3>1. /\ Playing(t, n, k + 1, j, r.device, r.repeatCount, r.size,
                     Cloning!Larger(0, r.given), r.prevTime, r.interval, r.firstPacket)
          /\ r.device # 0
      BY <1>1, <1>4, <1>5, <1>8, <1>9, <2>1, ReadsOn
    <3> QED
      BY <3>1
  <2>2. CASE ~(s3[g] <= Len(t))
    <3>1. j + 1 \in Nat
      OBVIOUS
    <3>2. \/ r.given = -1 /\ r.device = 0 /\ n >= 0 /\ k + 1 = Cloning!All(t, n)
          \/ /\ Playing(t, n, k + 1, j + 1, r.device, r.repeatCount, r.size,
                        Cloning!Larger(0, r.given), r.prevTime, r.interval, r.firstPacket)
             /\ r.device # 0
      BY <1>1, <1>4, <1>5, <1>8, <1>9, <2>2, ReadsAgain
    <3> QED
      BY <3>1, <3>2
  <2> QED
    BY <2>1, <2>2
<1>11. k + 1 \in Nat
  BY <1>4
<1>12. CASE r.given = -1 /\ r.device = 0 /\ n >= 0 /\ k + 1 = Cloning!All(t, n)
  <2>1. s2'[g] = "off"
    <3>1. r.given < 0 /\ r.device = 0
      BY <1>12
    <3> QED
      BY <1>3, <1>6, <3>1
  <2>2. Follows(t, n, s2'[g], s7'[g], s8'[g], s3'[g], s4'[g], s5'[g], s6'[g],
                s9', s10', s11')
    BY <1>3, <1>7, <1>11, <1>12, <2>1 DEF Follows
  <2> QED
    BY <1>3, <2>2 DEF FlowOk, t, n
<1>13. CASE /\ \E i \in Nat :
                 Playing(t, n, k + 1, i, r.device, r.repeatCount, r.size,
                         Cloning!Larger(0, r.given), r.prevTime, r.interval, r.firstPacket)
            /\ r.device # 0
  <2>1. PICK i \in Nat :
          Playing(t, n, k + 1, i, r.device, r.repeatCount, r.size,
                  Cloning!Larger(0, r.given), r.prevTime, r.interval, r.firstPacket)
    BY <1>13
  <2>2. s2'[g] = "on" /\ s6'[g] = Cloning!Larger(0, r.given)
    BY <1>3, <1>6, <1>13
  <2>3. Playing(t, n, s7'[g], i, s3'[g], s4'[g], s5'[g], s6'[g], s9', s10', s11')
    BY <1>3, <1>6, <2>1, <2>2
  <2>4. Follows(t, n, s2'[g], s7'[g], s8'[g], s3'[g], s4'[g], s5'[g], s6'[g],
                s9', s10', s11')
    BY <1>3, <1>7, <1>11, <2>2, <2>3 DEF Follows
  <2> QED
    BY <1>3, <2>4 DEF FlowOk, t, n
<1> QED
  BY <1>10, <1>12, <1>13

\* A flow that is off does not look at the static variables.
LEMMA FollowsKept ==
  ASSUME NEW f \in Tracked, FlowOk(f), s1' = s1, s3'[f] = s3[f], s4'[f] = s4[f],
         s5'[f] = s5[f], s6'[f] = s6[f], s7'[f] = s7[f], s8'[f] = s8[f],
         \/ s2'[f] = s2[f] /\ (s2[f] = "on" => UNCHANGED <<s9, s10, s11>>)
         \/ s2'[f] = "idle"
  PROVE  FlowOk(f)'
BY DEF FlowOk, Follows

LEMMA TraceKept ==
  ASSUME TraceInv, UNCHANGED <<s1, s2, s3, s4, s5, s6, s7, s8, s9, s10, s11>>
  PROVE  TraceInv'
<1>1. OfFlows' /\ OneOn'
  BY DEF TraceInv, OfFlows, IsOfFlow, OneOn
<1>2. Tracked' = Tracked
  BY DEF Tracked
<1>3. \A f \in Tracked : FlowOk(f)'
  BY DEF TraceInv, FlowOk
<1> QED
  BY <1>1, <1>2, <1>3 DEF TraceInv

LEMMA TraceStep ==
  ASSUME TraceAssumption, TraceInv, Cloning!Next
  PROVE  TraceInv'
<1>1. PICK g \in Cloners :
        Cloning!On(g) \/ Cloning!Off(g) \/ Cloning!OnTxTimeout(g) \/ Cloning!Mod(g)
  BY DEF Cloning!Next
<1>2. Moves(g)
  BY <1>1, OnMoves, OffMoves, TimeoutMoves, ModMoves
<1>3. OfFlows' /\ s1' = s1 /\ Tracked' = Tracked
  BY <1>2 DEF Moves, Tracked
<1>4. \/ \A h \in Cloners : s2[h] # "on"
      \/ s2[g] = "on"
      \/ s2'[g] = "idle" /\ UNCHANGED <<s9, s10, s11>>
  BY <1>1, OnMoves, OffMoves, TimeoutMoves, ModMoves
<1>5. OneOn'
  <2>1. \A f, h \in Cloners : s2[f] = "on" /\ s2[h] = "on" => f = h
    BY DEF TraceInv, OneOn
  <2>2. \A x \in Cloners \ {g} : s2'[x] = s2[x]
    BY <1>2 DEF Moves
  <2>3. \A f, h \in Cloners : s2'[f] = "on" /\ s2'[h] = "on" => f = h
    BY <1>4, <2>1, <2>2
  <2> QED
    BY <2>3 DEF OneOn
<1>6. ASSUME NEW f \in Tracked, f # g PROVE FlowOk(f)'
  <2>1. f \in Cloners /\ FlowOk(f)
    BY DEF TraceInv, Tracked
  <2>2. s2[f] = "on" => UNCHANGED <<s9, s10, s11>>
    BY <1>4, <1>6, <2>1 DEF TraceInv, OneOn
  <2>3. /\ s1' = s1 /\ s2'[f] = s2[f] /\ s3'[f] = s3[f] /\ s4'[f] = s4[f]
        /\ s5'[f] = s5[f] /\ s6'[f] = s6[f] /\ s7'[f] = s7[f] /\ s8'[f] = s8[f]
    BY <1>2, <1>6, <2>1 DEF Moves
  <2> QED
    BY <2>1, <2>2, <2>3, FollowsKept
<1>7. ASSUME g \in Tracked PROVE FlowOk(g)'
  <2>1. CASE Cloning!On(g)
    BY <1>7, <2>1, OnFollows
  <2>2. CASE Cloning!Off(g)
    <3>1. /\ s2'[g] = "idle" /\ s1' = s1
          /\ UNCHANGED <<s3, s4, s5, s6, s7, s8, s9, s10, s11>>
      BY <1>3, <2>2, OffMoves
    <3>2. FlowOk(g)
      BY <1>7 DEF TraceInv
    <3> QED
      BY <1>7, <3>1, <3>2, FollowsKept
  <2>3. CASE Cloning!OnTxTimeout(g)
    BY <1>7, <2>3, TimeoutFollows
  <2>4. CASE Cloning!Mod(g)
    <3>1. g \in Modified
      BY <2>4, ModMoves
    <3> QED
      BY <1>7, <3>1 DEF Tracked
  <2> QED
    BY <1>1, <2>1, <2>2, <2>3, <2>4
<1>8. \A f \in Tracked : FlowOk(f)'
  BY <1>6, <1>7
<1> QED
  BY <1>3, <1>5, <1>8 DEF TraceInv


(***************************************************************************)
(* All that is read.                                                       *)
(***************************************************************************)
LEMMA InputKept ==
  ASSUME InputInv, UNCHANGED <<s1, s2, s3, s4>>
  PROVE  InputInv'
BY DEF InputInv

LEMMA ReadInvariance ==
  MCSpec => []((part = "script" => ScriptInv) /\ (part = "input" => InputInv)
                 /\ (part = "traces" => TraceInv))
<1> DEFINE all == <<part, vars, pace, others>>
           I == /\ part = "script" => ScriptInv
                /\ part = "input" => InputInv
                /\ part = "traces" => TraceInv
<1>1. MCInit => I
  BY ScriptBegins, InputBegins, TraceBegins DEF MCInit, OtherParts
<1>2. I /\ [MCNext]_all => I'
  <2> SUFFICES ASSUME I, [MCNext]_all PROVE I'
    OBVIOUS
  <2>1. CASE part = "script" /\ Script!Next /\ UNCHANGED part
    BY <2>1, ScriptStep
  <2>2. CASE part = "input" /\ Input!Next /\ UNCHANGED part
    BY <2>2, InputStep
  <2>3. CASE part = "traces" /\ Cloning!Next /\ UNCHANGED part
    BY <2>3, TraceAssumption, TraceStep
  <2>4. CASE part \notin {"script", "input", "traces"} /\ UNCHANGED part
    BY <2>4
  <2>5. CASE UNCHANGED all
    <3>1. UNCHANGED <<part, s1, s2, s3, s4, s5, s6, s7, s8, s9, s10, s11>>
      BY <2>5 DEF others
    <3> QED
      BY <3>1, ScriptKept, InputKept, TraceKept
  <2> QED
    BY <2>1, <2>2, <2>3, <2>4, <2>5 DEF MCNext, Intervals, Scheduling
<1> QED
  BY <1>1, <1>2, PTL DEF MCSpec

\* FastReader and Mgen::ParseScript, MgenApp::OnCmdInputReady and MgenPattern's CLONE: of
\* any script, however its lines are continued, blank or padded, the events and the line
\* being put together hold the letters read so far, in order, and events are numbered by
\* where they are; of any input, every line that came to its end and was not empty was
\* executed once, as it was written and in its turn; and of any trace that one flow at a
\* time reads, every packet is sent at its own size and interval, as often as the line
\* says, and then the flow stops.
THEOREM ReadsAsWritten == MCSpec => []ReadAsWritten
<1>1. (part = "script" => ScriptInv) /\ (part = "input" => InputInv)
        /\ (part = "traces" => TraceInv) => ReadAsWritten
  BY TraceAssumption, ScriptMeans, InputMeans, TraceMeans DEF ReadAsWritten
<1> QED
  BY <1>1, ReadInvariance, PTL
================================================================================
