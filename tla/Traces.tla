--------------------------------- MODULE Traces --------------------------------
(***************************************************************************)
(* MgenPattern's CLONE pattern: a flow sends the messages of a recorded    *)
(* trace, each as long as its packet and as far from the one before it as  *)
(* they were recorded.  Every flow has its place in a file of its own, but *)
(* the time of the last packet, the last interval and the mark of the      *)
(* first packet are static: all CLONE flows share them.                    *)
(***************************************************************************)
EXTENDS Integers, Sequences

CONSTANTS Flow,
          Lines,        \* what ON lines give after CLONE
          Files,        \* a trace by name: a sequence of packets [time, size]
          Modulus,      \* of unsigned numbers
          Second,       \* one second, in the unit of time of the traces
          Together,     \* may two flows read at a time?
          Mods,         \* flows that may get a MOD
          MaxSent

VARIABLES line,         \* the line of each flow
          state,        \* idle, on, silent (without timer), or off
          device,       \* pcap_device: 0 for NULL, -1 for closed, or the next packet
          repeatCount,  \* repeat_count
          size,         \* pkt_size_min, which is pkt_size_max
          wait,         \* tx_timer: the time from the last message to the next
          sent,         \* messages sent since the ON
          message,      \* the last of them: its size, and the time since the one before
          prevTime, interval, firstPacket,      \* shared by the flows
          crashed       \* was a closed file read?

ofFlow == <<line, state, device, repeatCount, size, wait, sent, message>>
statics == <<prevTime, interval, firstPacket>>
vars == <<ofFlow, statics, crashed>>

\* A line has a type of file and a name, and may have a count.
Accepted(l) == l.type = "tcpdump" /\ l.file # "none"
\* A count that cannot be read is reported and not refused.
Repeats(l) == IF l.repeat \in {"absent", "bad"} THEN -1 ELSE l.count

Init ==
  /\ line \in [Flow -> Lines]
  /\ state = [f \in Flow |-> "idle"]
  /\ device = [f \in Flow |-> 0]
  /\ repeatCount = [f \in Flow |-> Repeats(line[f])]
  /\ size = [f \in Flow |-> 0]
  /\ wait = [f \in Flow |-> 0] /\ sent = [f \in Flow |-> 0]
  /\ message = [f \in Flow |-> [size |-> 0, after |-> 0]]
  /\ prevTime = 0 /\ interval = 0 /\ firstPacket = FALSE
  /\ crashed = FALSE

-------------------------------------------------------------------------------
Larger(a, b) == IF a > b THEN a ELSE b

\* The headers of Ethernet, IP and UDP are 42 bytes; a message has at least 28. The
\* difference is unsigned.
MinSize == 28
SizeOf(p) == LET s == (p.size - 42) % Modulus IN IF s > MinSize THEN s ELSE MinSize

\* The file is opened again. Its first packet is skipped, and sent is the second.
RestartPcapRead(t, now) ==
  IF Len(t) < 2
  THEN [now EXCEPT !.device = Len(t) + 1,
                   !.prevTime = IF t = << >> THEN now.prevTime ELSE t[1].time]
  ELSE [now EXCEPT !.given = t[2].time - t[1].time, !.device = 3, !.size = SizeOf(t[2]),
                   !.prevTime = t[2].time]

\* The end of the file: once more from its start, or the end of the flow. A file
\* whose last interval was a second is taken for one of a single packet, and is
\* closed without a mark.
EndOfFile(t, now) ==
  CASE ~now.firstPacket /\ now.interval = Second -> [now EXCEPT !.device = -1]
    [] now.repeatCount = 0 -> [now EXCEPT !.device = 0]
    [] OTHER -> RestartPcapRead(t,
                  [now EXCEPT !.repeatCount = IF @ > 0 THEN @ - 1 ELSE @])

NextPacket(t, now) ==
  LET p == t[now.device]
      i == IF now.firstPacket THEN now.interval ELSE p.time - now.prevTime
  IN [now EXCEPT !.given = i, !.interval = i, !.firstPacket = FALSE, !.device = @ + 1,
                 !.size = SizeOf(p), !.prevTime = p.time]

\* A file that cannot be opened gives nothing.
OpenPcapDevice(f) == line[f].file \in DOMAIN Files

\* A call of flow f whose file is at dev, opened if there is none.
GetPktInterval(f, dev, rep) ==
  LET now == [given |-> -1, device |-> dev, repeatCount |-> rep, size |-> size[f],
              prevTime |-> prevTime, interval |-> interval, firstPacket |-> firstPacket]
      open == IF dev # 0 THEN now
              ELSE [now EXCEPT !.device = 1, !.interval = Second, !.firstPacket = TRUE]
      t == Files[line[f].file]
  IN CASE ~OpenPcapDevice(f) -> now
       [] open.device <= Len(t) -> NextPacket(t, open)
       [] OTHER -> EndOfFile(t, open)

Call(f) == GetPktInterval(f, device[f], repeatCount[f])

GetPktSize(f) == size[f]

Keep(f, g) ==
  /\ device' = [device EXCEPT ![f] = g.device]
  /\ repeatCount' = [repeatCount EXCEPT ![f] = g.repeatCount]
  /\ size' = [size EXCEPT ![f] = g.size]
  /\ prevTime' = g.prevTime /\ interval' = g.interval /\ firstPacket' = g.firstPacket

-------------------------------------------------------------------------------
\* An ON gives the flow the pattern of the event, which has no file open. Whatever the
\* interval, the first message is sent at once, if there is one.
On(f) ==
  /\ state[f] \in {"idle", "off"} /\ Accepted(line[f])
  /\ Together \/ \A g \in Flow : state[g] # "on"
  /\ LET first == GetPktInterval(f, 0, Repeats(line[f]))
     IN /\ Keep(f, first)
        /\ state' = [state EXCEPT ![f] = IF first.given < 0 THEN "silent" ELSE "on"]
  /\ wait' = [wait EXCEPT ![f] = 0] /\ sent' = [sent EXCEPT ![f] = 0]
  /\ UNCHANGED <<line, message, crashed>>

\* An OFF leaves the file open.
Off(f) ==
  /\ state[f] \in {"on", "silent"}
  /\ state' = [state EXCEPT ![f] = "idle"]
  /\ UNCHANGED <<line, device, repeatCount, size, wait, sent, message, statics, crashed>>

\* GetNextInterval. A packet recorded before the one it follows is sent at once; so
\* is one where the pattern ended but seems to have a file open.
GetNextInterval(f, g) ==
  IF g.given < 0 /\ g.device = 0
  THEN state' = [state EXCEPT ![f] = "off"] /\ UNCHANGED wait
  ELSE wait' = [wait EXCEPT ![f] = Larger(0, g.given)] /\ UNCHANGED state

OnTxTimeout(f) ==
  /\ state[f] = "on" /\ ~crashed
  /\ sent[f] < MaxSent
  /\ sent' = [sent EXCEPT ![f] = @ + 1]
  /\ message' = [message EXCEPT ![f] = [size |-> GetPktSize(f), after |-> wait[f]]]
  /\ IF device[f] = -1
     THEN crashed' = TRUE /\ UNCHANGED <<state, device, repeatCount, size, wait, statics>>
     ELSE /\ Keep(f, Call(f))
          /\ GetNextInterval(f, Call(f))
          /\ UNCHANGED crashed
  /\ UNCHANGED line

\* A MOD without a pattern asks for an interval all the same; the time since the
\* last message counts for it.
Mod(f) ==
  /\ f \in Mods /\ state[f] = "on" /\ ~crashed /\ device[f] # -1
  /\ LET g == Call(f)
     IN /\ Keep(f, g)
        /\ IF g.given < 0
           THEN state' = [state EXCEPT ![f] = "silent"] /\ UNCHANGED wait
           ELSE /\ \E elapsed \in 0..wait[f] :
                     wait' = [wait EXCEPT ![f] = Larger(elapsed, g.given)]
                /\ UNCHANGED state
  /\ UNCHANGED <<line, sent, message, crashed>>

Next == \E f \in Flow : On(f) \/ Off(f) \/ OnTxTimeout(f) \/ Mod(f)

Spec == Init /\ [][Next]_vars

-------------------------------------------------------------------------------
\* The packet the k-th message of a flow is for: all of the file, and then again and
\* again from the second.
Place(t, k) == IF k <= Len(t) THEN k ELSE 2 + ((k - 2) % (Len(t) - 1))
Gap(t, j) == Larger(0, t[j].time - t[j - 1].time)
All(t, n) == Len(t) + n * (Len(t) - 1)

\* What a flow sends is the trace: the sizes, and the intervals between the packets,
\* as often as the line says, and then the flow stops.
AsRecorded ==
  \A f \in Flow \ Mods : line[f].file \in DOMAIN Files =>
    LET t == Files[line[f].file]
        n == Repeats(line[f])
        k == sent[f]
    IN /\ k > 0 => message[f] = [size |-> Larger(MinSize, t[Place(t, k)].size - 42),
                                 after |-> IF k = 1 THEN 0 ELSE Gap(t, Place(t, k))]
       /\ state[f] = "off" <=> (state[f] # "idle" /\ n >= 0 /\ k = All(t, n))
================================================================================
