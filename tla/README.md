# A TLA+ model of MGEN

MGEN (the Multi-Generator of the Naval Research Laboratory) sends and receives
test traffic over UDP, TCP and other transports, under the control of a script
of timed events and of commands received while it runs, and logs what it sends
and receives. This directory models its control: the state that timers, socket
events, script events and remote commands share, and what must stay true of it
over every interleaving of them.

Paths below are those of the repository under `src/`. `common` stands for
`src/src/common`, `include` for `src/include`, `mgen.xml` for `src/doc/mgen.xml`;
`mgenFlow.cpp` and the other source files are in `common`.

Contents: 1 the system, 2 the modules, 3 the runs, 4 the proofs, 5 what is not
modelled, 6 where code and documentation differ.

## 1. The system

MGEN is one process and one thread. A Protolib dispatcher calls handlers, one
at a time, for timers that are due, sockets that are ready, and commands. There
are no data races; what is hard is that a handler leaves work to others (it
stops its own timer and trusts that a socket event will come, puts a flow in a
list that several flows walk, keeps a reference to a shared socket) and any
event can come in between. Two other processes take part: the reader of a pipe
that a sink writes to, and `mpmgr`, which shares memory with mgen.

| Component | State | Operations | Talks to | Hard behaviour |
|---|---|---|---|---|
| Flow (`mgenFlow`) | transport and old transport, pattern, timer, backlog, count sent and its limit, deferred OFF, suspension, socket error | ON, MOD, OFF, SUSPEND, RESUME, RESET, `OnTxTimeout`, `SendMessage`, `StopFlow` | its transport, the event list | an OFF that waits for a backlog; a timer that is stopped by a full queue; a second ON before the OFF is done |
| Pending list (`MgenTransport`) | head, tail and cursor per transport, two links per flow | `AppendFlow`, `RemoveFlow`, `RemoveFromPendingList`, `SendPendingMessage` | flows, output notification | the links are shared by all lists; flows leave while the list is walked |
| Socket transports (UDP, TCP) | socket, reference count, output notification, groups, options | `Open`, `Close`, `Listen`, JOIN, LEAVE, IGNORE, `SetEventOptions` | flows, reception events | one socket for many users: who closes it, and when; options that outlive the socket |
| TCP framing | message and fragment being sent, buffer offsets, message and fragment being received | `SendMessage`, `GetNextTxBuffer`, `GetNextTxFragment`, `OnRecvMsg`, `GetRxNumBytes` | the byte stream | partial sends and reads at every boundary; lengths at the limit of a buffer |
| TCP connection | connecting, connected, closing; retry count | `Open`, `Listen`, `Accept`, `OnEvent`, `Shutdown`, `Reconnect`, `ScheduleReconnect` | flows, events | a disconnection in the middle of a message, reconnection timers, `Shutdown` then `Close` |
| Sink and source | message buffer and index, notifications | `Open`, `SendMessage`, `Write`, `OnInputReady`, `Read` | a pipe to another process | partial writes and reads, and an OFF between them |
| Event schedule (`MgenEventList`, `Mgen`) | sorted lists of flow and reception events, the next event, offset | `InsertEvent`, `Precheck`, `OnEventTimeout`, `Start`, `Stop` | flows, the reception side | events in the past, offsets, events inserted while the list is walked |
| Script, commands, keywords | line buffer, option mask, command buffer, the lock of each setting | `ParseScript`, `InitFromString`, `OnCommand`, `OnCmdInputReady` | all of the above | lines continued and cut, options in any order, several sources of one setting |
| Reception (`DrecGroupList`) | groups and interfaces | LISTEN, IGNORE, JOIN, LEAVE | transports | a JOIN before its socket is open; a port that closes under a group |
| Analytics (`MgenAnalytic`) | window of sequence numbers, counters, report queue and its iterator | `Update`, `UpdateAnalyticReport`, `GetNextReport` | receivers, flows that carry reports | loss over reordered and duplicated messages; items removed while the queue is walked |
| Patterns | interval, what is left of an interval or a burst, place in a trace | `InitFromString`, `GetPktInterval`, `ReadingPcapFile` | flows | what is carried from one interval to the next; statics that flows share |
| Messages and logs | fields with room for them, log file | `Pack`, `Unpack`, `LogRecvEvent`, `ConvertBinaryLog` | transports, files | messages of every size; a log that ends in the middle |
| Payload manager (`mpmgr`, `gpsPub`) | shared segment, key file | publish, update, read | another process | no lock, and a process that dies between two steps |
| Sequencer, simulators, Python and GUI front ends, tools | | | | separate programs, or plain input and output |

What makes each of them correct:

- *Flow*: a flow that has something to send and is allowed to is always going
  to be called (no lost wakeup); a deferred OFF completes; a count is never
  exceeded; suspension stops the timer; at most one reference per flow.
- *Pending list*: every flow with a backlog is in the list of its transport and
  in no other; no flow is in it twice; the cursor is always in the list, and
  each flow gets its turn.
- *Transports*: the reference count is the number of users; the socket is open
  exactly while there is one; nobody's socket is closed by another; a socket
  has the options it was given last.
- *TCP*: what the receiver reassembles is what the sender was given, in order,
  wherever sends and reads are cut; a connection starts at a message boundary;
  no sequence number is left out.
- *Sink*: the reader of the pipe gets the messages, whole and in order.
- *Event schedule*: events run once, in order, and at their time.
- *Script and commands*: what is read is what was written, and what overrides
  goes on doing so.
- *Analytics*: a report says what has arrived; each report goes out.
- *Patterns*: intervals keep the pace of the line they are from.
- *Messages and logs*: what is shown of a message is what was sent, and a
  binary log converts to the text log.
- *Payload manager*: a message carries what `mpmgr` was last told, whole, as long as
  `mpmgr` reads its datagrams right.

`PROJECT.json` lists the components with their sources and state, and the
hazards, each at the line where it bites.

## 2. Modules

| Module | Models | Instantiated by |
|---|---|---|
| `PendingQueue` | the round robin of flows as one queue: a sequence and a cursor | `UdpFlows`, `TcpFlows`, `PendingQueues` |
| `UdpFlows` | flows on one UDP transport: all handlers | `MCUdpFlows`, `MCWaiting` |
| `PendingQueues` | abstract specification: one queue per transport | `PendingList` |
| `PendingList` | the same on the pointers of the code | `MCWaiting` |
| `SinkStream` | sink, pipe and source | `MCWaiting` |
| `TcpFraming` | messages on a TCP stream: fragments, buffers, partial sends and reads, checksums | its run |
| `TcpFlows` | flows that share a TCP connection | `MCTcpFlows` |
| `Reception` | users of UDP sockets: flows, LISTEN, IGNORE, JOIN, LEAVE | `MCReception` |
| `SocketOptions` | options of UDP sockets that flows share and leave | `MCReception` |
| `Analytic`, `Reporter`, `ReportFormat` | windows, queue and bytes of reports | `MCMessages` |
| `MessageFormat`, `BinaryLog`, `FlowCommand` | what messages carry and logs keep | `MCMessages` |
| `SharedPayload` | `mpmgr`, shared memory and the mgen that reads it | `MCMessages` |
| `EventSchedule` | event lists, timers, START, OFFSET, STOP | `MCControl` |
| `ScriptReader`, `EventLine`, `DrecLine` | from the letters of a script to events | `MCControl` |
| `Keywords`, `CommandInput`, `Commands` | from the letters of a command to settings | `MCControl`, `MCCommands` |
| `Patterns`, `Traces` | intervals between messages | `MCControl` |
| `Samples` | lines, commands, events and reports for TLC | `MCControl`, `MCMessages`, `MCCommands` |
| `PendingQueueLemmas`, `*_proofs` | theorems, section 4; those of `Waiting`, `Reception`, `Messages` and `Control` extend the MC modules of their runs | |

A definition that a comment introduces as a mutant ("Mutant: ...") is a
plausible bug of the definition after it. `PROJECT.json` says which property it
breaks; it is no part of the model.

### UdpFlows

State, with its field in the code:

| Variable | Code |
|---|---|
| `flowTransport`, `oldTransport` | `flow_transport`, `old_transport` (not NULL) |
| `pattern` | the interval of `pattern`: `rate` (> 0), `zero` (no rate), `fast` (rate -1, unlimited) |
| `txTimer` | `tx_timer.IsActive()` |
| `pendingMessages`, `messagesSent`, `messageLimit` | the fields of those names |
| `keepAlive`, `offPending`, `flowSuspended`, `socketError` | `keep_alive`, `off_pending`, `suspended`, `socket_error` |
| `lastEvent` | type of the last event of the flow, which `ValidateEvent` compares with |
| `socketOpen`, `referenceCount`, `outputNotify` | the socket of the transport, `reference_count`, output notification |
| `pend` | the pending list with its cursor `pending_current` |
| `serving`, `breakOut` | inside the loop of `SendPendingMessage`, and its counter |

Actions: `On`, `Mod`, `ModDestination`, `Off` are `MgenFlow::Update` with
`DoOnEvent`, `DoModEvent` and `DoOffEvent`; `Suspend`, `Resume`, `Reset` the
remote commands; `TxCounted`, `TxLeaveOld`, `TxOff`, `TxQueue`, `TxSend` the
ways through `OnTxTimeout`; `OutputReady` and the `Serve...` actions
`SendPendingMessage` with one step per iteration, during which no other action
is enabled, as in the code. A handler is otherwise one step.

The answer of the socket is chosen freely from `Results`: `OK`, `BLOCKED` (the
buffer of the system is full), `FAILED`. `Open` may fail where `OpenMayFail`.

Abstracted: intervals are not times (an active timer may fire at any moment);
sequence numbers; `messages_sent` is counted only while there is a limit to
compare it with, and a new limit resets it. Left out: the CONNECT option, the
change of SRC (in `PendingList` and `SocketOptions`), LISTEN and IGNORE on the
same socket (in `Reception`).

### PendingList

One step per operation on the pointers `pending_head`, `pending_tail`,
`pending_current`, `pending_next`, `pending_prev`, for several transports that
share the links of the flows. The flow at the cursor may stay or leave at each
iteration; `UdpFlows` says which. `PendingQueues` is what the list promises:
appending a flow that is there already changes nothing, removal keeps the order
of the others, the cursor is on a flow whenever there is one.

`RemoveFlow` sends the cursor to the head when it removes the tail, wherever
the cursor was. This makes the round robin restart, and is in both models.

### SinkStream

One flow of protocol SINK, the `MgenAppSinkTransport` it shares with others, the
pipe, and the source at the other end. `buffer`, `msgIndex` are `msg_buffer` and
`msg_index` of the sink, `rxBytes`, `rxLength` those of the source. `OtherOn`
and `OtherOff` are the ON and OFF of other flows, which open and close the one
sink of mgen. A write and a read take any part of what there is. `sent`,
`expected`, `sound` and `disturbed` are history: the numbers of the next message
to send and to arrive, whether all were as expected, and whether an open or a
close of another flow, or an OFF, cut a message short (section 6), after which
nothing is claimed.

### TcpFraming

One `MgenTcpTransport` that sends and the one that accepted its connection.
`mgenMsgLen`, `msgLen`, `txMsgOffset`, `txBufferPending`, `txFragmentPending`
and `rxMsgLen`, `rxMsgIndex`, `rxFragmentPending`, `rxBufferIndex` are the
fields of those names (of `tx_msg`, `rx_msg` and the transport). Contents are
abstracted: a checksum is the number of bytes it was computed over (`txSummed`,
`rxSummed`), and agrees at the receiver if it was computed over the same bytes
and all four of its own were put together. `stream` has the lengths of the
fragments that the receiver has not finished, `inFlight` the bytes in the
sockets and the network, `verdict` what happened to the fragments received.

`SendMessage`, `OutputReady` (`OnEvent(SEND)`), `Write`, `WouldBlock`,
`WriteFails` are the sender; its loops take one step per `Send`, between which
the receiver and the network may act. `Read` is one turn of the loop of
`OnEvent(RECV)`. `Break`, `OnDisconnect`, `Open` are the connection, without
RETRY: `ShutdownTransport` clears both ends.

Two cuts of the stream are more than the code can put together: the two bytes
of a length in different reads (the first byte is then taken from a local
buffer that was never written, `mgenTransport.cpp:1202`, 1717: the model has any
length), and a checksum in three reads (section 6). `Cuts` says whether reads may
be cut so; where it is empty, every other cut is possible, the end of the
receive buffer included.

### TcpFlows

`flows` are the `MgenFlow`s (state, timer, backlog, count, deferred OFF, pause,
the number of the next message), `tcp` their one `MgenTcpTransport`: socket
state, references, notification, retry count, and the message that is half sent.
`pend` is its round robin, `reconnects` the RECONNECT events in the lists of the
flows. `On`, `Off`, `TxTimeout`, `Reconnect` are the handlers of a flow, `Socket`
those of the socket (connected, writable, disconnected), `Serve` the loop of
`SendPendingMessage`, `Continue` the rest of a message that was cut. `step` is
the difference between the numbers of two successive messages of a flow. Errors
of `Open` and `Connect`, MOD, SUSPEND and a COUNT without keep-alive are left
out.

### Reception and SocketOptions

`Reception`: `sockets` are the transports of `transport_list`, each with its
port, interface, references, groups, and whether it is open, bound and listens
(`input`), with what the system keeps of group memberships; `drecGroups` is
`drec_group_list`, an entry with a transport once it was joined; `deferring` is
the time before the start, when JOINs wait. `ListenEvent`, `IgnoreEvent`,
`JoinEvent`, `LeaveEvent`, `JoinDeferredGroups` are `ProcessDrecEvent` and its
helpers, `FlowEvent` the ON and OFF of flows. `Tidy` instances take back every
LISTEN by one IGNORE, while no flow or group has the port.

`SocketOptions`: `transports` have the options kept in the object and those of
the socket; `flows` their transport and destination; `told` is history, what
events said to each transport. `On`, `Mod`, `Off` find, make, open and close
transports as `GetMgenTransport`, `SetupFlowTransport` and
`IsTransportChanging` do. Behaviours are about one option at a time, since
options do not meddle with each other.

### Analytic, Reporter, ReportFormat

`Analytic` is `MgenAnalytic::Update` for one flow: the window, its counters, the
sliding mask (a set of bits), latencies; messages arrive lost, late, reordered,
twice, and their numbers wrap. `log` and `bounds` are history: what arrived and
where windows began. `Reporter` is the queue that `MgenAnalyticReporter` walks
with an iterator while windows update and time out entries, and the messages of
a flow take as many reports as fit. `ReportFormat` is the report as bytes with
quantised fields, whose places depend on a flag and the type of the addresses:
`buffer` is `report_buffer`, laid out once and written over field by field
(`SetDstAddr`, `SetFlowId`, `SetUINT16`...) at the end of each window; `given` is
history, what it was made of. A loss is read to the nearest 65535th, and one that
is too small for that is still read as a loss (`LossRead`).

### MessageFormat, BinaryLog, FlowCommand, SharedPayload

`MessageFormat`: what of a message of a given size is packed, unpacked, summed,
logged, and converted from a binary log; a byte knows the field and message it
is from. `BinaryLog`: records of every kind of event over runs of mgen that end
or are killed, perhaps in the middle of a record, and their conversion. `FlowCommand`: the masks of SUSPEND, RESUME
and RESET in an ON line, the bytes of a message they take, and receivers that get
them late or twice. `SharedPayload`: `keyFile` and `segments` are what the system
keeps, `mgr` and `mgen` where the two processes are; each reads and writes
without a lock, and `mpmgr` may die between any two steps and be run again. The
offset of a datagram is a `char` that is widened with its sign, as in the code
(`NegativeChars`: 128, or 0 where `char` has none): a negative one, and a datagram
without bytes, is misread, and `told` keeps that it was (`Misread`, `DieWriting`).

### EventSchedule

`list`, `next`, `timer` are `event_list`, `next_event` and `event_timer` of every
flow and those of reception events; `offset`, `mgenStarted`, `startTimer`,
`started`, `stopped` the fields of `Mgen` and `MgenFlow`; `event` has every event
with its time and, as history, how often and when it was executed. `Parse`
inserts from the script, `CommandFlow` and `CommandDrec` while mgen runs,
`ScheduleReconnect` a reconnection. The clock of the script is not a variable,
since the code keeps none: `GetCurrentOffset` reads it off the timers.

### ScriptReader, EventLine, DrecLine, Keywords, CommandInput, Commands

`ScriptReader` is `ParseScript` over `Readline`: continued, blank and padded lines,
line numbers, a buffer that is too small. `EventLine` and `DrecLine` read the options of a line one per step,
into an event, a mask, or an array of ports whose counters are 16 bits wide:
`array` is the part of it that `count` counts, which wraps (`Write`). A JOIN or
LEAVE has its options in any order, a LISTEN or IGNORE its list first and one word
behind it that is looked at.
`Keywords` is how a word that may be abbreviated is looked up, by the list and
the order that its place decides. `CommandInput` reads commands byte by byte.
`Commands` has every setting with its lock, for commands of the command line,
of scripts and of remote control: flags and their locks are in `mgen`, what is
still to come in `todo`.

### Patterns and Traces

`Patterns` is `GetPktInterval`: what is left of the last interval and of the
burst is kept; `clock`, `calls`, `started`, `previous` are history. A flow takes
the pattern of its ON and of its MOD; `freed` has the events whose inner pattern
a copy has deleted. `Traces` is CLONE: `device` is the place in the file of each
flow; `prevTime`, `interval`, `firstPacket` are static in the code and shared.

## 3. Runs

| Run | Instance | Shows |
|---|---|---|
| `udp_flows` | 2 flows, queues of 1, finite and unlimited rates, COUNT 1, all commands, all answers; symmetric flows | one reference per flow, every backlog is in the round robin, suspension stops the timer, counts |
| `udp_loose` | events in any order, sockets that fail to open | the round robin is well formed, even so |
| `udp_live` | ON, MOD and OFF at a finite rate, queues of 1 and 2, under fairness | a deferred OFF completes, every backlog is served |
| `waiting` | parts `flows`, `pointers`, `sink` | no lost wakeup; the pointers implement the queues; the pipe carries messages whole, and all of them |
| `tcp_framing` | messages of 30 lengths around the limits of 16-byte buffers and 40-byte fragments, a stream that holds 6 bytes, with and without checksums, under fairness | no checksum cut by a buffer, fragments and checksums read right, a message that is begun is finished |
| `tcp_flows` | a flow of a finite and one of an unlimited rate, COUNT 1 or none, RETRY 1, writes that go whole, in part, fail or break the connection, two losses, no limit of the loop, under fairness | references, the owner of the message on its way, numbers without a gap, no lost wakeup, a deferred OFF completes |
| `reception` | parts `options`, `references` | references of sockets, groups and ports that stay heard, options as told last |
| `messages` | parts `windows`, `reports`, `bytes`, `format`, `log`, `commands`, `memory` | what is counted, reported, carried and logged is what happened; every report goes out |
| `control` | parts `patterns`, `schedule`, `script`, `input`, `words`, `commands`, `events`, `drecs`, `traces` | events once, in order, at their time, and all of them; lines and commands mean what is written; what overrides goes on; intervals keep pace |
| `udp_off_count`, `tcp_shared_close`, `commands_answered` | | disagreements between code and documentation, section 6 |

### Runs in parts

Four MC modules hold several components in one run: `MCWaiting`, `MCReception`,
`MCMessages`, `MCControl`. The variable `part` says which one a behaviour is
about; the others stand still in it, in one of their initial states, or have
their variables (`s1`, `s2`, ...) used for the part that moves. The parts do not
interact in these runs: where two components do (a flow and its transport, a
flow and its round robin, TCP flows and their connection, sockets and reception
events), they are in one module; where they only hand something on (a line
becomes an event, a window updates a report), the next one is explored for
everything it could be handed.

| Part | Instance |
|---|---|
| `flows` | `UdpFlows`: a queue of 1 and an unlimited one, all rates, no COUNT, a socket that blocks but does not fail |
| `pointers` | `PendingList`: 4 flows, 2 transports, flows that change SRC while nothing of theirs waits |
| `sink` | `SinkStream`: messages of 3 and 5 bytes, a pipe of 4 |
| `options` | `SocketOptions`: 2 flows, 2 transports, a given and no SRC, a host and a group; TOS, TTL, INTERFACE |
| `references` | `Reception`: a flow, a port, 2 groups (symmetric), an interface and none, at most 2 memberships per socket, joins that the system refuses |
| `windows` | `Analytic`: 5 arrivals of 6 messages across the wrap of their numbers, lag up to 3, a window of 2 ticks, a mask of 4 |
| `reports` | `Reporter`: 3 analytics of which 2 are reported, up to 2 reports per message |
| `bytes` | `ReportFormat`: IPv4 and IPv6 addresses, 3 windows |
| `format` | `MessageFormat`: UDP sizes at and beside every limit from 28 to 86, four sizes over TCP |
| `log` | `BinaryLog`: every event, 4 records, 2 runs of mgen |
| `commands` (of `messages`) | `FlowCommand`: ids in three bytes of the mask, 2 ONs |
| `memory` | `SharedPayload`: payloads of up to 2 bytes, 2 segments, one left by an older program; datagrams of up to 3 bytes at offsets from -1 to 3, and empty ones |
| `patterns` | `Patterns`: every type, bursts of every inner type, 5 intervals |
| `schedule` | `EventSchedule`: 2 flows and the reception events, times 0 to 2, 3 events, 2 STARTs, with and without OFFSET |
| `script` | `ScriptReader`: every file of 6 characters, lines of up to 4 |
| `input` | `CommandInput`: every input of 6 characters, commands of up to 3 |
| `words` | `Keywords`: every abbreviation of every keyword, in every place |
| `commands` (of `control`) | `Commands`: two of the sample commands on the command line or after it, two scripts |
| `events`, `drecs` | `EventLine`, `DrecLine`: sample lines of up to 3 options in any order; ports 16 bits wide, and their count, stand as numbers modulo 5, which lists of up to 8 ports wrap |
| `traces` | `Traces`: two flows, traces of 4 and 2 packets, played once and repeated |

### Bounds

Two flows are enough for one to wait behind another, to leave while the other is
served and to hold the last reference; the round robin with three and four flows
(removal in the middle, before and after the cursor) is in `pointers`. A queue
of one is full at once; `Limits12` has one that fills in steps. `MaxPending`
bounds how often a retry that fails again is counted (the code has no bound); it
is above every queue limit. `MaxReferences` bounds how many ONs come without an
OFF, and is above the number of flows, so that a reference too many is seen.
`PendingMessageLimit` is 1 where the code has 10000, in all runs of `UdpFlows`: a
loop that gives up after two iterations shows both ways out of the loop. In
`tcp_flows` the loop has no limit (`Unlimited`): section 6 has what the limit does to
flows of unlimited rate there.

In `memory` the one negative offset is -1, which stores a byte of the payload as its
length. Lower ones, and empty datagrams, end in the death of `mpmgr` at any step
(`DieWriting`, `MgrDies`); the proof has them all.

In `tcp_framing` the sizes are scaled and the rules between them are not: the
checksum has its four bytes, the length its two, buffers are large against
both and fragments larger than two buffers. The lengths are all those near a
boundary (one buffer, with and without room for a checksum; two; one fragment;
the sizes where the last fragment would be too small; three fragments). A stream
of 6 bytes cuts everything in at least every place, and lets the sender be at
most one fragment ahead. Deadlock is checked.

`MaxFailures` 2 in `tcp_flows` lets a connection be lost, made again and lost
again, one time more than RETRY allows. A window of 2 ticks and 5 arrivals give
up to three reports, the last over a wrapped mask. Widths of integers (UINT16
ports, 32-bit numbers, the length of a payload) are kept as small moduli, chosen
so that wrapping happens in the run. Two runs of mgen and two segments let what
the first left be found by the second.

`CHECK_DEADLOCK FALSE` is in every run but `tcp_framing`: all flows off at the
end of a script, a file that is read, a bound that is reached, are states where
nothing more happens.

### What the runs assume

- `waiting`: `NoLostWakeup` of `UdpFlows` is checked without COUNT and RESET: a
  flow that has reached its count has no timer, and RESET sets the count back
  without starting one (section 6); and without failing sends, since an error of
  an unlimited flow turns off the notification of all. Events come in order.
  `PendingList` has no MOD of the SRC of a flow that waits (`MovesWaiting`).
- `tcp_flows`: `Tidy`, an OFF comes when the flow is alone on a connection that
  is made. Otherwise OFF closes the socket of the others (`tcp_shared_close`).
- `reception`: `Tidy`, each IGNORE takes back one LISTEN, and its port is not
  that of a socket used for something else; sockets open; an option is changed
  by an event that says what kind of destination it is for (`MovesWithTtl`).
- `messages`: no report fills a message to the last byte (`ExactFit`), no
  message ends inside its payload length (`EndsInLength`), a log is opened before
  mgen starts and flushed (`OtherOrders`, `Flush`). No window has a negative
  latency or a rate just below a power of ten (`Plausible`).
- `control`: a command input that is ready has something to read (`Hangups`), no
  START NOW comes while mgen waits to start or runs (`LateNow`), commands make no
  flow where there is an OFFSET (`LateFlows`), TCP flows reconnect when no other
  event is to come (`LateRetries`), one trace is read at a time (`Together`). The
  protocol of an ON line comes before its pattern, and no list of ports ends at the
  highest number (`LineAssumption`); a trace has two packets or more, with their
  headers of 42 bytes and at most 255 more (the modulus of the run is 256), and does
  not end with an interval of a second (`TraceAssumption`).

Each of these is a constant, or an assumption on the samples; other values give the
counterexamples that section 6 lists.

### Fairness

The dispatcher calls the handler of a socket that is ready and whose
notification is on, and a handler runs to its end: weak fairness of `Serve`, of
the steps of `TcpFraming` and `SinkStream` that finish a handler, of
`InputReady`, `Connected`, `Ends`. It fires a timer that stays active; one that
handlers stop and start again would fire in between, since its time comes:
strong fairness of `TxTimeout`. `OutputReady` and `OnDisconnect` of `TcpFraming`
have strong fairness, since a handler may run in between. The clock runs and
timers that are due fire (`EventSchedule`); a flow that reports goes on sending
(`Reporter`); a process runs on (`Commands`).

About the environment: the network stops refusing messages at some time
(`UdpFlows`, `<>[][~SendFails]_vars`; in `TcpFlows` it takes messages whole);
without it nothing is ever sent. In `Reporter` updates and removals end, so that
"every report goes out" has a meaning. Nothing is assumed about the connection of
`TcpFraming`: a message is finished, or dropped with it. Nothing is assumed about
the pipe but that it is read.

## 4. Proofs

Every theorem is about all values of the constants that the assumptions of the modules
(`...Assumption`, which TLC evaluates in the runs) and the hypotheses it names allow:
any finite set of flows, any sizes, counts, times and numbers of steps. A hypothesis
that a theorem has is a constant of section 3 (a run assumes it too, and section 6
says what happens without it). Where components share an MC module the proofs extend
it and are about its `MCSpec`, so that what is proved is what the run checks; a step
of another part changes nothing of the part in question.

All have the same form: an inductive invariant `I`, `Init => I`, a lemma per action
for `I /\ [Next]_vars => I'`, and `I => P`. What follows is which `I`, and why `P` is
not enough.

### Flows (`Waiting_proofs`, `TcpFlows_proofs`)

Of `UdpFlows`, for any flows, limits, patterns, counts and commands:

- `TypeCorrect`: `Spec => [](TypeOK /\ RoundRobin)`. The types alone are not
  inductive: the cursor is taken out of the list and moved by its position, which is a
  position only if the list holds no flow twice and the cursor is in it.
- `SuspendedStaysOff`: no step starts the timer of a suspended flow. Inductive over
  the types; each handler either starts a timer under a test of `suspended` or leaves
  it where it was.
- `NeverAboveCount`: `messagesSent <= messageLimit` while there is a limit. The
  increment is under `LimitReached`, every other step resets.
- `ReferencesBalanced`: with events in order and sockets that open (`Ordered`),
  `[](ReferencesMatch /\ BacklogQueued)`. The invariant is `Balanced == Typed /\
  OnOnce /\ Backlogs /\ Counted`: a reference count that equals the number of flows on
  the transport is kept only because a flow that is on does not get a second ON
  (`OnOnce`), and a flow that leaves the list has no backlog (`Backlogs`).
- `WakeupsKept`: if, besides, no COUNT is given and no send fails (`Steady`),
  `[]NoLostWakeup`. The invariant is `Awake == Balanced /\ Quiet /\ NoLostWakeup`. A
  flow that leaves the round robin turns the notification off when it was the last
  there, so that the others have to be known to have no backlog; `Quiet` (no error is
  pending, and an OFF is pending only after an OFF event) closes the ways in which a
  handler returns early without a timer.

Of `TcpFlows`, where flows share a connection that is lost and made again. The
invariant `Good` is a predicate of the whole state, since a handler changes the state
several times and helpers are called in the middle; each helper has a lemma for each
part.

- `NumbersHaveNoGap`: `Spec => []NoGap`, without a hypothesis. The part `Numbers` ties
  the number of the message on its way to the number its flow is at.
- `OneReferenceEach`, `MessageOfItsFlow`: `[]ReferencesMatch` and `[]OwnMessage` under
  `Tidy`. The part `References` needs `OffAlone`: an OFF may wait only for a flow that
  is alone on its connection, or its end would shut down the others.
- `NobodyForgotten`: `[]NoLostWakeup` under `Tidy` if the loop of `SendPendingMessage`
  does not yield (`PendingMessageLimit = Unlimited`; with a limit the disagreement of
  section 6 bites). `Woken` says that a paused flow that is on has a RECONNECT to
  come, that only flows of unlimited rate have errors pending, and that while there is
  a connection a flow that may send has a timer, a RECONNECT or a place in the round
  robin; `Served`, that while the notification of a connection is off, a flow in the
  round robin blocks it or every flow that may send has a timer.

`PendingQueueLemmas` holds the facts about the queue that both rest on: each operator
keeps the list free of duplicates with the cursor in it, and changes the set of its
flows in the way its name says.

### Pending list and sink (`Waiting_proofs`)

- `QueuesImplemented`: `MCSpec => RefinesQueues`, the refinement: what `AppendFlow`,
  `RemoveFlow`, `RemoveFromPendingList` and the cursor do to the links is, for each
  transport, a step of the queues of `PendingQueues` or none. `InOwnList`: a flow is
  in the list of the transport it is on and in no other. The hypothesis `Sound` says
  that the flows are finite, NULL is none of them, and no flow changes its transport
  while it waits (`MovesWaiting`). The invariant is that there are sequences `q` such
  that the pointers are the links of `q`, with no flow twice in one or in two of them.
  The abstraction reads the list by walking it, a recursive function: `WalkOfList`
  shows that the walk over linked pointers is the sequence, with a witness for the
  function's definition and the least place where the two would differ.
- `StreamFramed`: `MCSpec => []Framed`: for messages of any lengths and a pipe of any
  size, what is read are whole messages, in order. The invariant follows the bytes
  from the sink's buffer through the pipe into the source's: they are the end of one
  message, whole ones, and the beginning of another. It is stated by what is true of
  neighbours in the pipe, so that no recursion is needed.

### TCP framing (`TcpFraming_proofs`)

For all sizes that `TcpFramingAssumption` allows (8192, 65535 and 76 among them):

- `SenderCuts`: `Spec => [](FragmentsFit /\ ChecksumRoom)`. The invariant `SenderInv`
  adds that a buffer being sent lies within its fragment and the fragment within its
  message. The lemmas about `FragmentSize`, `FirstBuffer` and `NextBuffer` are the
  arithmetic of the three functions that cut; a cut leaves room for the checksum only
  because the rest it was made from had that room.
- `FragmentsFound`: `[]FragmentsRead` if no length is cut by a read (`"length"` not in
  `Cuts`). `FramingInv` adds to the sender's the bytes on their way (`StreamInv`: the
  lengths of the fragments that the receiver has not finished account for all bytes in
  flight) and the receiver's offsets (`ReaderInv`).
- `ChecksumsPass`: `[]ChecksumsHold` if `Cuts` is empty: the receiver has summed, at
  the end of each fragment, the bytes that the sender had under the checksum.

### Reception and options (`Reception_proofs`)

- `ReferencesKept`, `HeardUntilGivenUp`: `[]ReferencesMatch` and `[]StillHeard` of
  `Reception` for any flows, groups, ports, interfaces and limits of memberships,
  under `Proper`: `Tidy`, and no socket fails to open, because a flow whose socket did
  not open gives back a reference it does not have. `Holds` says for each transport
  that its references are its flows, its active groups and its LISTEN, and that it is
  open exactly while there are any (`Counted`); that the system has the memberships of
  the active entries, each for one (`Joined`); and that a port is listened on exactly
  while it has LISTENs not taken back. One flow more or less changes the number of
  users of one transport only if users point into the table (`Pointed`).
  `JoinDeferredGroups` is a recursive function over the groups; each of its steps
  keeps `Holds`.
- `OptionsKept`: `MCSpec => []ToldApplied` of `SocketOptions`, without BROADCAST and
  without a MOD of the TTL alone (`Known`). The invariant `Applied` follows the option
  from what a transport was told to what it keeps, and from there to its socket: a
  transport with references is open, and one that is not gets what it keeps from
  `Open`. That the search finds a transport of the list (`Newest`) needs a greatest
  element of a set of numbers, by well-founded induction from the library.

### Schedule, patterns, commands (`EventSchedule_proofs`, `Control_proofs`)

- `ExecutedOnce`: `Spec => []OnceInOrder` under `Orderly` (no START NOW while mgen
  runs, no flow made by a command under an OFFSET, no RECONNECT while other events are
  to come; times are natural numbers). An event is put into its list by comparing with
  the time that some timer tells. `Inv` says that every list is a row without
  repetitions in order of times (`Listed`), a timer runs exactly while an event is to
  come (`Ticking`), what is before the next event was executed once and the rest not
  (`Counted`), and no timer tells a time before an event that was passed (`Clocks`):
  so an event that comes in goes behind what was passed, and in front of the timer's
  event only if the timer is moved to it.
- `ExecutedOnTime`: `[]OnTime`. `PromptInv` adds that all timers tell the same time as
  long as an event of the script is to come (`Synchronous`) and that each timer
  reaches its events when they are expected (`Prompt`).
- `AtPace`: `MCSpec => []Paced` for the patterns that `InitFromString` accepts
  (`Proper`: a JITTER fraction of at most a half, burst intervals and durations that
  are not negative), any draws of the exponential distribution and any number of
  messages. `Kept` says what is left of the interval (`OnTurn`: the clock is `calls`
  intervals less the remainder) and of the burst (`InBurst`), and where the burst
  began by the one before it (`Begun`).
- `LinesMeanWhatTheySay`: `MCSpec => [](part # "words" => LinesMeant)`, for event and
  reception lines of any options in any number and order that `LineAssumption` allows;
  the ports of a list that names `PortModulus` or more are left open.
  `LineInv`: after `n` options each field has the value of the last of them that names
  it, each flow the status of the last list that it is in, and the mask the options
  seen. `DrecInv` follows the array of ports through its two loops: `Listing` between
  two items, `Writing` within a range, with room kept for what is left of it; what is
  written is the list so far, unless that is too long to be counted (`Written`).
- `ReadsAsWritten`: `MCSpec => []ReadAsWritten`. Of scripts (`ScriptInv`): the letters
  of the events and of the line being put together are the letters of what was read,
  and lines are counted right; blanks, padding and backslashes are no letters, and a
  lemma for each says that taking it away keeps the others (`StrippedKeeps`,
  `UnslashedKeeps`). What a sequence of sequences is together is defined by recursion;
  `FlatExists` gives the function, and it is compared at the least place where two
  would differ. Of commands (`InputInv`): what was executed are the lines that ended,
  each at its turn, which is counted by the ends up to it, and the buffer holds what
  fits of the line that has not ended (`WasRead`). Of traces (`TraceInv`): one flow at
  a time is on, and only it moves the static variables; `Playing` ties its place in
  the file, the repetitions left and the statics to the number of messages it has
  sent, and `ReadsOn` and `ReadsAgain` are the two ways from one to the next.
- `CommandsOverride`, `LogsHaveOneFormat`, `FlowsToldSo`: `[]Overrides`,
  `[]OneFormat`, `[]SuspendedAsTold` of `Commands`, for any menu of commands and any
  scripts that `MenuAssumption` allows (flows are numbers, no log file is called
  "stdout", no line of a script lacks its argument). The invariant `Obeyed` is about
  the state alone, so that it can be followed through a script, line by line: a
  setting is in force as the commands given say, and locked exactly if one of them
  overrides (`SettingsOk`); while no log was opened nothing was logged, and a file has
  what the format is (`LogOk`); `flow_list` has no flow twice and exactly those that
  events made, and a suspended flow is one that was told so last (`FlowsOk`).
  `ReachedAll`: the walk along `flow_list` that ends when it has found as many flows
  as a range has room for misses none, by counting. A list of ranges and a script are
  recursive functions: that they have a value after each step is `MadeExists`, and
  what holds of it follows from the least step at which it would fail.

### Reports, payloads, logs, commands (`Messages_proofs`)

- `ReportedExactly`: `MCSpec => []ReportsExact`, for a mask and numbers of any size
  and any loss, duplication and reordering, if no message is further behind the newest
  than the mask spans (`Punctual`). `Inv` says which numbers the mask and what it has
  forgotten stand for (`Masked`) and where windows begin (`Spans`); unless a number
  was counted twice, the counters are the numbers new in the window and the latencies
  its extremes. The missing ones follow by counting: the numbers of a window are as
  many as its span, by a bijection, and are new or missing. Differences of numbers
  that wrap are settled once, in `Apart`.
- `QueueOfTheTable`: `MCSpec => []Listed`, if no report fills a message to its last
  byte (`ExactFit`: the iterator then stays past the end, and `last_unreported_item`
  may be left on an item that is removed). `Arranged`: the queue has the table's
  items, each once, the iterator is on one of them, and is past the end only when the
  queue is empty.
- `PayloadCarried`: `MCSpec => []PayloadTold`, without a hypothesis but
  `PayloadAssumption`, for any `NegativeChars`. The property says nothing of an `mpmgr`
  that has misread a datagram until it is started again. `SharedInv`: the key file names the segment that is attached
  and not removed, for every reader that uses it (`Named`), and the segment holds what
  was told last but for the datagram in the hands of `mpmgr` (`Stored`).
- `LogRecreated`: `MCSpec => []Recreated`, if a log is opened before mgen starts and
  is flushed, or is that of a single run (`Careful`). `Matching`: behind the header
  there is a record for each line, which reads back as it, and at most one that is
  torn, at the end. `EventAssumption` says that records of the events can be read back
  (`Recordable`); TLC evaluates it on every kind of event of the samples.
- `CommandsAsTold`: `MCSpec => []AsTold`, for any ids that fit (`CommandAssumption`).
  `Sized`: a command has two masks of one byte and then of two more with each growth.
  The lemmas say that an id has its bits exactly if the masks are that long, that
  growth moves the second mask without changing a status and clears what is new, and
  that `SetStatus` leaves the other flows alone.

- `FieldsLogged`: `MCSpec => []Logged`, for addresses, hosts, payloads, reports and
  messages of any size and any number of messages, if none ends inside its payload
  length (`EndsInLength`). `FormatInv` holds what a message on its way may be, and that
  over UDP it is unpacked into a fresh object. The proof follows the bytes: `Fitting` is how many
  fields are packed whole, `Begun` and `PackedAs` say which byte is at each place, and
  a lemma for each field of `Unpack` says that it is found if and only if it is there.
- `ReportsAreRead`: `MCSpec => []ReportRead`, for any addresses, ports, flow numbers,
  table of times and windows that `ReportAssumption` allows, and any number of windows
  written over each other. `BytesInv`: every field is at its place, as it was given
  last. The places depend on the length of the addresses and on the flag of the flow
  number, which the window's offset shares two bytes with, so each setter has a lemma
  that says what it leaves alone. `RateIs`, `LossIs` and `StepsIs` are the arithmetic
  of the few bits: a rate is read within an eighth of a per cent and one, a loss to
  the nearest 65535th, a time within what the nearest step of the table is off.

### Only model-checked

- Every liveness property (`OffCompletes`, `BacklogServed`, `Arrives`, `AllExecuted`,
  `AllReported`, `Transmitted`, ...): liveness under fairness is out of the prover's
  reach.
- The part of `LinesMeant` about `words`: keywords are a fixed table that is looked up
  letter by letter. TLC looks up every abbreviation of every keyword in every place,
  which is all there is.

Every other property of a passing run is stated by a theorem, for all values of the
constants that its hypotheses leave. The theorems that meet a recursive function do without the library's
induction, which the provers cannot instantiate: they take the least place at which
what they claim would fail.

## 5. What is not modelled

- Several accepted connections on one TCP port, LISTEN and IGNORE over TCP, and
  the options of TCP sockets: the transports that `Accept` makes need a model of
  connections of their own (section 6 has what reading the code showed).
- SAVE, which writes a script from the state of the flows; the table of analytics
  by flow and address; `mgenPayloadMgr`, a table of payloads with its own command
  loop.
- Text: the spelling of numbers, times and addresses, the formatting of lines and
  logs, usage texts. The random distributions themselves.
- The Sequencer (`_RAPR_JOURNAL` builds), the simulators (their own schedulers
  take the place of the dispatcher), Python, the graphical front end, `mgenBlast`
  and `pcap2mgen`: separate programs or other builds.
- Protolib is a submodule that is not in the repository; its timers, sockets,
  queues and dispatcher are modelled as the code here uses them, and marked
  external.

## 6. Where code and documentation differ

With a run:

- `udp_off_count`: a deferred OFF of a flow that reaches its COUNT first never
  completes (`mgenFlow.cpp:935`, against `mgen.xml:1198-1200`).
- `tcp_shared_close`: over TCP an OFF shuts the connection down and closes it in
  one call, under the flows that share it (`mgenFlow.cpp:858`).
- `commands_answered`: a command that comes without the argument it needs keeps
  mgen busy for ever (`mgen.cpp:1458`).

`PROJECT.json` quotes the lines they disagree with. The others were found while
modelling, and have their steps here. Where a constant is named, a run with the
other value shows them; otherwise the model has them, or leaves them out, as its
comments say.

Flows over UDP:

- The backlog can pass its limit (`mgenFlow.cpp:1183`, `mgen.xml:2892-2898`):
  with limit 1, a blocked send makes it 1; another flow waits, the timer queues
  a second message; a blocked retry of the first counts it again and makes 3.
- The OFF of a suspended flow with a backlog does not complete by its timer,
  which nothing starts (`mgenFlow.cpp:905`, `mgen.xml:2919-2920`).
- A suspended flow with a backlog is still served by the socket
  (`mgenTransport.cpp:224`, `mgen.xml:2645-2648`).
- RESET of a flow that has reached its count and is not suspended starts no
  timer (`mgenFlow.cpp:1266`, `mgen.xml:2112-2117`).
- QUEUE -1 drops messages while others wait, since only limits above zero count
  the message (`mgenFlow.cpp:1402`, `mgen.xml:2913-2917`).
- An ON before the OFF is done keeps the old backlog unless the destination
  changes (`mgenFlow.cpp:349`, `mgen.xml:2920-2922`).
- An error of a flow of unlimited rate turns off the output notification the
  other flows wait for (`mgenFlow.cpp:1201`, `mgen.xml:2908-2911`; `BacklogServed`
  of `UdpFlows` with `"fast"` among the patterns).
- The OFF of a flow whose socket did not open closes the socket of another
  (`mgenFlow.cpp:279`, against the comment at 890-891; `OpenMayFail`).
- A MOD of the SRC of a flow with a backlog leaves it in the list of the old
  transport (`mgenFlow.cpp:510`, against the comment at 494-497; `MovesWaiting`).
  The links are then used by two lists; after two such MODs the walk of
  `RemoveFlow` can meet a cycle and not end.
- Without `ENABLE_EVENT_VALIDATION`, the makefile build, events out of order lose
  wakeups and references (`ValidateEvents`).
- `MOD DST x PERIODIC [0 n]` ignores the DST (`mgenFlow.cpp:451-460`); report flags
  are never turned off; the SUSPEND lists of a MOD are ignored.

TCP:

- A checksum that arrives in three reads makes the receiver compute over a number
  of bytes below zero (`mgenTransport.cpp:1557`, against the comments at 1533 and
  1552; `Cuts = {"checksum"}`). The two bytes of a length in different reads go
  into different local buffers (1202, 1690-1717).
- After `SendPendingMessage` yields at its limit with the notification off, an
  unlimited flow is not called again (`PendingMessageLimit` of `TcpFlows`).
- An OFF while a RECONNECT is to come leaves the flow paused, and a later ON does
  not send; with RETRY -1 a flow that is off connects again for ever
  (`mgen.xml:2224-2227`); a message half sent when the connection is lost opens
  the next one; a flow without a connection stays in the round robin and stops
  those behind it (`mgen.xml:2908-2911`); an OFF while connecting leaves an open
  socket without references (`Tidy`).
- A message that is only begun gives its number back, so that two may have the
  same (`mgenFlow.cpp:1166-1168`; `OwnNumber` of `TcpFlows`).
- Read in the code only: LISTEN takes the newest TCP transport with the port,
  which may be an accepted connection; two LISTENs and one IGNORE leave it
  listening; IGNORE shuts down client flows with the same SRC port; with a default
  RETRY a server never closes connections that ended.

Sockets and reception:

- A JOIN that fails deletes the transport, which a flow may be using
  (`mgen.cpp:331-336`); IGNORE closes one reference of every UDP transport with
  the port; two LISTENs and one IGNORE leave a reference (`mgen.xml:2309-2312`;
  `Tidy`); a JOIN with an INTERFACE and a port takes the first socket of the port;
  an Open that fails in Connect keeps its reference (`OpenAnswers`).
- BROADCAST never reaches a socket that is opened after it (`mgen.xml:680-685`;
  `"BROADCAST"` in `Options`). A MOD of TTL without DST sets the unicast TTL of a
  multicast flow (`mgen.xml:1782-1792`; `MovesWithTtl`). A flow without SRC takes
  the first transport of the list (`mgen.cpp:379`, `mgen.xml:1135-1138`). A transport
  keeps its options after its socket closes, for the next flow; those of a flow
  that moves stay behind.

Analytics and reports:

- A mask that is forced forward forgets what came before and counts it again
  (`mgenAnalytic.cpp:124-131`); the flag of a negative latency is never cleared; a
  window closed by a duplicate opens the next with a latency of zero; a window of
  duplicates alone reports one message; the restart of a sender is not seen.
- A report that fills a message to its end leaves the iterator past the queue, and
  `last_unreported_item` on an item that may be removed (`ExactFit`). Updates do not
  always come before reports that were already sent, though a comment says so.
- `QuantizeRate` rounds 9999 up to a mantissa that reads 0; rates below 1 have a
  negative exponent in an unsigned field.

Sink:

- Without a queue the rest of a half-written message waits for the next one
  (`mgenTransport.cpp:297`, `mgenFlow.cpp:1178`, `mgen.xml:959`); a write that fails
  repeats bytes; the ON of any flow opens the sink again and forgets the index, the
  OFF of any closes it (these end what `Framed` and `Arrives` claim); an OFF waits
  for ever while every message is cut short.

Messages and logs:

- A message may end inside its payload length (`EndsInLength`); a short one over
  TCP keeps the payload of the one before (28 in `TcpSizes`); records above 1024
  bytes, and RERR records, end a conversion; SEND records have the content past
  the message; START loses the version; the flush and ttl of a line are swapped
  (`mgenMsg.cpp:1607`).
- A log opened after the start, or ended in the middle of a record and appended
  to, does not convert (`mgen.xml:4165-4169`; `OtherOrders`, `Flush`). Messages too
  short for a checksum are refused by receivers that want one.
- ACCEPT is logged with the `tx_msg` that the first accept left
  (`mgenTransport.cpp:1248`).

Shared payload:

- The offset of a datagram is a `char` (`mpmgr.cpp:89`). Where that is signed, offsets
  from 128 up are taken for numbers near 2^32, and the sum at line 91 wraps: with
  offset 255 it passes the check, and line 105 writes the first byte of the payload
  over its length, so that messages carry a payload of that length. Lower ones pass
  it if there are bytes enough, and write 4 GB behind the segment; an empty datagram,
  whose number of bytes wraps at line 90, may pass by whatever offset the buffer
  holds: both kill `mpmgr`. Addresses are taken for 64 bits wide; with 32 the lower
  offsets would write before the segment. No document says what offsets may be, so
  that no run claims it.
- A message may have a new length with old bytes while a datagram is stored;
  after an orderly stop of `mpmgr` mgen keeps the segment that was removed (the
  comment of `PayloadTold`); `GPSMemoryInit` hands a pointer to
  `GPSPublishShutdown` that is four bytes off, so that an old segment stays
  attached; two `mpmgr` at once unlink each other's key file. The manual names the
  command gpsfile, the code gpskey (`mgen.xml:718`, `mgenApp.cpp:82`).

Schedule:

- A RECONNECT has a time from now in a list ordered from the start
  (`LateRetries`); START NOW after the start repeats events (`LateNow`); a flow that
  a command makes under an OFFSET begins at the wrong time (`LateFlows`).

Scripts and commands:

- `VERSION.TXT:116` says ambiguous abbreviations are detected. Global commands of a
  script take the last that fits ("re" is RECONNECT, "s" SUSPEND, "i" INTERFACE,
  even for an immediate IGNORE); among options a protocol or pattern wins ("S" is
  SINK, "T" TCP, "B" BURST; `mgenEvent.cpp:309-317`); on the command line a word
  ambiguous among the commands of the application is looked up in those of mgen
  ("c" is CHECKSUM), and one that is not hides them ("in", "st", "e").
- A comment after an even number of backslashes is false: the next line that is not
  blank is joined. An unterminated last line is dropped, CRLF counts twice, and
  the line number reported is the first of a group.
- QUEUE on the command line after a script does not reach its flows (`mgen.cpp:1218`,
  `mgen.xml:271-273`; `QueueOverridden` of `Commands`). REUSE, RXLOG and flags have
  no lock. RXBUFFER with a bad argument uses a value that was never set. A remote
  command that is too long is cut and executed; a descriptor that is ready with
  nothing to read repeats a character (`Hangups`).
- The labels PROTOCOL and PATTERN never work; a PATTERN before the PROTOCOL, or in a
  MOD, is checked against the wrong limit (`mgenPattern.cpp:263-282`,
  `mgen.xml:1274-1276`); `COUNT n,<anything>` turns keep-alive off; flow ids above
  the limit are ignored in silence; a refused line has made its flow
  (`mgen.cpp:1218`).
- A port list that ends in 65535 does not end, and 0-65535 gets no room besides; ports
  from 65536 wrap; a list that names 65536 ports or more keeps only those behind the
  last full turn of its 16-bit count (`mgenEvent.cpp:1206`, 1281-1283; `Write` of
  `DrecLine`); RXBUFFER in a JOIN reads its value as a label; a repeated PORT leaks.

Patterns:

- The MOD of a flow to a BURST deletes the inner pattern that the event shares
  (`mgenFlow.cpp:449`, `mgen.xml:992-996`; `InnerAlive` of `Patterns` with a BURST in
  `Changed`). Intervals of JITTER are within twice the fraction of the rate
  (`mgen.xml:1424-1425`; `JitterWithin`). The first burst is an inner interval short.
- CLONE flows share statics, and two at a time mix their intervals (`Together`;
  `mgenPattern.cpp:706-708`); a MOD without a pattern takes a packet of the trace
  (`mgenFlow.cpp:671`); a trace whose last interval is one second is closed and read
  again (`mgenPattern.cpp:742-747`); packets below 42 bytes wrap (727).

SAVE and the payload manager, not modelled, read in the code: a flow whose last
event a timer has executed is taken for inactive and not saved
(`mgenFlow.cpp:1458-1495`, 1619-1666, `mgen.xml:3060-3090`); `mgenPayloadMgr` sends
commands on without override, so that those of its command line lose, and keeps
START to itself.
