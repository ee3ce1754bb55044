----------------------------- MODULE SharedPayload -----------------------------
(***************************************************************************)
(* The payload that mpmgr publishes in shared memory and flows of an mgen  *)
(* send: gpsPub.cpp, mpmgr.cpp, and the places of mgenApp.cpp and          *)
(* mgenFlow.cpp that subscribe and read.                                   *)
(*                                                                         *)
(* A key file names a segment.  Its first word is its size; then comes the *)
(* number of bytes of the payload, at offset 0, and the bytes.  Nothing is *)
(* locked: mpmgr and mgen take their steps in any order, mpmgr may die     *)
(* between any two of its own, and is started again.  One mpmgr runs at a  *)
(* time.  One call of GPSSetMemory is one step, and so is what is done     *)
(* with a file between two calls that change it.                           *)
(***************************************************************************)
EXTENDS Integers, FiniteSets, SequencesExt

CONSTANTS PAYLOAD_MAX,   \* bytes of the longest payload
          NegativeChars, \* values of a char below zero: 128, or 0 where it has no sign
          Values,        \* values of a byte
          OldSizes,      \* sizes of a segment that an older mpmgr may have left
          MaxSegments    \* bound on the segments made

VARIABLES segments,   \* what the system keeps of every segment made
          keyFile,    \* the key file: whether it exists, and the segment it names (0: none)
          mgr,        \* mpmgr: its next step, segments it is attached to, payload_size
          mgen,       \* mgen: what it does, its segment, the message it sends
          told,       \* the payload by the datagrams of the mpmgr that runs
          quiet       \* mpmgr waited for a datagram ever since mgen began to read

vars == <<segments, keyFile, mgr, mgen, told, quiet>>

Offsets == 0..PAYLOAD_MAX
Zeros == [i \in Offsets |-> 0]
Size == PAYLOAD_MAX + 1

\* Datagrams: an offset, and bytes to put there.  The offset comes as a char, which is
\* widened with its sign: unsigned numbers that wrap stand here for the negative ones
\* they are made of.  In an empty datagram the offset is what the buffer happens to
\* hold, and the number of bytes wraps too.
Chars == (-NegativeChars)..(PAYLOAD_MAX + 1)
Placed ==
  [offset : Chars, bytes : BoundedSeq(Values, PAYLOAD_MAX + NegativeChars), empty : {FALSE}]
Empty == [offset : Chars, bytes : {<< >>}, empty : {TRUE}]
Datagrams == Placed \cup Empty
NoDatagram == [offset |-> 0, bytes |-> << >>, empty |-> FALSE]
EndOf(d) == d.offset + (IF d.empty THEN -1 ELSE Len(d.bytes))

Attached(s) == s # 0 /\ (s \in mgr.segments \/ s = mgen.segment)

\* shmat: a segment marked for removal stays while someone is attached, and some
\* systems let others attach to it meanwhile.
Attaches(s) == s # 0 /\ (segments[s].removed => Attached(s))
MayFail(s) == s # 0 => segments[s].removed

\* GPSGetMemory and GPSSetMemory: how many bytes from an offset there is room for.
Within(size, offset, len) ==
  IF offset + len <= size THEN len
  ELSE IF offset + len - size > len THEN 0 ELSE size - offset

Put(s, offset, bytes) ==
  LET len == Within(segments[s].size, offset, Len(bytes))
  IN [segments EXCEPT ![s].bytes =
        [i \in Offsets |-> IF i \in offset..(offset + len - 1) THEN bytes[i - offset + 1] ELSE @[i]]]

\* GPSPublishShutdown, once the segment is detached: remove what the file names.
Removed ==
  IF keyFile.segment = 0 THEN segments ELSE [segments EXCEPT ![keyFile.segment].removed = TRUE]

-------------------------------------------------------------------------------
\* GPSMemoryInit: use the segment the key file names, if it has the right size; a
\* segment of another size is given up, though it stays attached: the pointer
\* handed to GPSPublishShutdown is not the one it expects.
Old == keyFile.segment

MgrStart ==
  /\ mgr.step = "off"
  /\ \/ /\ Attaches(Old) /\ segments[Old].size = Size
        /\ mgr' = [mgr EXCEPT !.step = "clear", !.segments = {Old}, !.segment = Old]
        /\ UNCHANGED segments
     \/ /\ Attaches(Old) /\ segments[Old].size # Size
        /\ mgr' = [mgr EXCEPT !.step = "discard", !.segments = {Old}]
        /\ segments' = Removed
     \/ /\ MayFail(Old)
        /\ mgr' = [mgr EXCEPT !.step = "open"]
        /\ UNCHANGED segments
  /\ UNCHANGED <<keyFile, mgen, told>>

\* ... the file goes after the segment.
Discard ==
  /\ mgr.step = "discard"
  /\ keyFile' = [exists |-> FALSE, segment |-> 0]
  /\ mgr' = [mgr EXCEPT !.step = "open"]
  /\ UNCHANGED <<segments, mgen, told>>

\* A new segment, all zeros, and the key file emptied for its number.
Create ==
  /\ mgr.step = "open"
  /\ Len(segments) < MaxSegments
  /\ segments' = Append(segments, [size |-> 0, bytes |-> Zeros, removed |-> FALSE])
  /\ mgr' = [mgr EXCEPT !.step = "publish", !.segment = Len(segments'),
                        !.segments = @ \cup {Len(segments')}]
  /\ keyFile' = [exists |-> TRUE, segment |-> 0]
  /\ UNCHANGED <<mgen, told>>

Publish ==
  /\ mgr.step = "publish"
  /\ keyFile' = [keyFile EXCEPT !.segment = mgr.segment]
  /\ mgr' = [mgr EXCEPT !.step = "size"]
  /\ UNCHANGED <<segments, mgen, told>>

\* The size is written last, and others may attach before.
WriteSize ==
  /\ mgr.step = "size"
  /\ segments' = [segments EXCEPT ![mgr.segment].size = Size, ![mgr.segment].bytes = Zeros]
  /\ mgr' = [mgr EXCEPT !.step = "clear"]
  /\ UNCHANGED <<keyFile, mgen, told>>

\* MgenPayloadMgr::Init: no payload yet, whatever an earlier mpmgr has left.
Cleared(s) == Put(s, 0, [i \in 1..Size |-> 0])

Clear ==
  /\ mgr.step = "clear"
  /\ segments' = Cleared(mgr.segment)
  /\ mgr' = [mgr EXCEPT !.step = "waiting", !.payloadSize = 0]
  /\ UNCHANGED <<keyFile, mgen, told>>

\* What datagrams tell, from no payload on, until mpmgr misreads one.
NothingTold == [length |-> 0, bytes |-> Zeros, misread |-> FALSE]
Misled == [NothingTold EXCEPT !.misread = TRUE]
Misread(d) == d.empty \/ d.offset < 0
ToldBy(d) ==
  [told EXCEPT !.length = IF EndOf(d) > @ THEN EndOf(d) ELSE @,
               !.bytes = [i \in Offsets |-> IF i \in (d.offset + 1)..EndOf(d)
                                           THEN d.bytes[i - d.offset] ELSE @[i]]]

\* MgenPayloadMgr::OnSocketRecv: the length first, if it grows, and then the bytes.  The
\* check is of the sum, which comes back from a negative offset.
Receive(d) ==
  /\ mgr.step = "waiting"
  /\ EndOf(d) \in Offsets
  /\ IF EndOf(d) > mgr.payloadSize
     THEN /\ segments' = Put(mgr.segment, 0, <<EndOf(d)>>)
          /\ mgr' = [mgr EXCEPT !.step = "bytes", !.payloadSize = EndOf(d), !.datagram = d]
     ELSE /\ segments' = segments
          /\ mgr' = [mgr EXCEPT !.step = "bytes", !.datagram = d]
  /\ told' = IF told.misread \/ Misread(d) THEN Misled ELSE ToldBy(d)
  /\ UNCHANGED <<keyFile, mgen>>

\* Mutant: the offset is not moved past the length.
StoredOverLength(s, d) == Put(s, d.offset, d.bytes)

Stored(s, d) == Put(s, d.offset + 1, d.bytes)

\* No bytes, which the copy takes for nearly 2^32, or an address 4 GB behind the segment.
\* (An offset of -1 puts the first byte over the length.)
Astray(d) == d.empty \/ d.offset < -1

WriteBytes ==
  /\ mgr.step = "bytes" /\ ~Astray(mgr.datagram)
  /\ segments' = Stored(mgr.segment, mgr.datagram)
  /\ mgr' = [mgr EXCEPT !.step = "waiting", !.datagram = NoDatagram]
  /\ UNCHANGED <<keyFile, mgen, told>>

\* A signal: Shutdown detaches, removes the segment the file names, and the file.
MgrStop ==
  /\ mgr.step = "waiting"
  /\ mgr' = [mgr EXCEPT !.step = "remove", !.segments = @ \ {mgr.segment}, !.segment = 0]
  /\ UNCHANGED <<segments, keyFile, mgen, told>>

RemoveSegment ==
  /\ mgr.step = "remove"
  /\ segments' = Removed
  /\ mgr' = [mgr EXCEPT !.step = "unlink"]
  /\ UNCHANGED <<keyFile, mgen, told>>

MgrOff == [step |-> "off", segment |-> 0, segments |-> {}, payloadSize |-> 0,
           datagram |-> NoDatagram]

\* The copy that goes astray kills mpmgr; what it has stored until then is anything.
DieWriting ==
  /\ mgr.step = "bytes" /\ Astray(mgr.datagram)
  /\ \E stored \in [Offsets -> Values \cup {0}] :
       segments' = [segments EXCEPT ![mgr.segment].bytes =
                      [i \in Offsets |-> IF mgr.datagram.empty /\ i > mgr.datagram.offset
                                        THEN stored[i] ELSE @[i]]]
  /\ mgr' = MgrOff /\ told' = NothingTold
  /\ UNCHANGED <<keyFile, mgen>>

Unlink ==
  /\ mgr.step = "unlink"
  /\ keyFile' = [exists |-> FALSE, segment |-> 0]
  /\ mgr' = MgrOff /\ told' = NothingTold
  /\ UNCHANGED <<segments, mgen>>

\* mpmgr dies, or cannot open its socket: the segment and the file stay.
MgrDies ==
  /\ mgr.step # "off"
  /\ mgr' = MgrOff /\ told' = NothingTold
  /\ UNCHANGED <<segments, keyFile, mgen>>

-------------------------------------------------------------------------------
Silent == [length |-> 0, bytes |-> << >>]

\* MgenApp::OnStartup: GPSSubscribe, once; without a segment mgen does without.
MgenStart ==
  /\ mgen.step = "off"
  /\ \E s \in {0} \cup (IF Attaches(Old) THEN {Old} ELSE {}) :
       /\ (s = 0) => MayFail(Old)
       /\ mgen' = [step |-> "idle", segment |-> s, message |-> Silent]
  /\ UNCHANGED <<segments, keyFile, mgr, told>>

\* MgenFlow::SendMessage takes the length, and a pointer to the bytes ...
ReadLength ==
  /\ mgen.step = "idle" /\ mgen.segment # 0
  /\ LET s == segments[mgen.segment]
         read == IF Within(s.size, 0, 1) = 1 THEN s.bytes[0] ELSE 0
     IN mgen' = [mgen EXCEPT !.step = "reading", !.message = [length |-> read, bytes |-> << >>]]
  /\ UNCHANGED <<segments, keyFile, mgr, told>>

\* ... which are copied when the message is packed; behind the payload there are zeros.
ByteAt(i) == IF i \in Offsets THEN segments[mgen.segment].bytes[i] ELSE 0

Send ==
  /\ mgen.step = "reading"
  /\ mgen' = [mgen EXCEPT !.step = "sent",
                          !.message.bytes = [i \in 1..mgen.message.length |-> ByteAt(i)]]
  /\ UNCHANGED <<segments, keyFile, mgr, told>>

NextMessage ==
  /\ mgen.step = "sent"
  /\ mgen' = [mgen EXCEPT !.step = "idle", !.message = Silent]
  /\ UNCHANGED <<segments, keyFile, mgr, told>>

MgenOff == [step |-> "off", segment |-> 0, message |-> Silent]

MgenStop ==
  /\ mgen.step \in {"idle", "sent"}
  /\ mgen' = MgenOff
  /\ UNCHANGED <<segments, keyFile, mgr, told>>

-------------------------------------------------------------------------------
\* An older mpmgr may have left a file that names its segment.
Init ==
  /\ \/ /\ segments = << >>
        /\ keyFile = [exists |-> FALSE, segment |-> 0]
     \/ \E size \in OldSizes :
          /\ segments = <<[size |-> size, bytes |-> Zeros, removed |-> FALSE]>>
          /\ keyFile = [exists |-> TRUE, segment |-> 1]
  /\ mgr = MgrOff /\ mgen = MgenOff
  /\ told = NothingTold
  /\ quiet = FALSE

Mgr ==
  \/ MgrStart \/ Discard \/ Create \/ Publish \/ WriteSize \/ Clear
  \/ \E d \in Datagrams : Receive(d)
  \/ WriteBytes \/ DieWriting \/ MgrStop \/ RemoveSegment \/ Unlink \/ MgrDies

Reading == ReadLength /\ quiet' = (mgr.step = "waiting")

Next ==
  \/ Mgr /\ quiet' = FALSE
  \/ Reading
  \/ (MgenStart \/ Send \/ NextMessage \/ MgenStop) /\ quiet' = quiet

Spec == Init /\ [][Next]_vars

-------------------------------------------------------------------------------
\* A message carries the whole payload that mpmgr has been told since it started,
\* and nothing else, if mpmgr was waiting from the reading of the length to that
\* of the bytes, has not given up the segment that mgen is attached to, and never took
\* a datagram that it misreads: one without bytes, or with an offset no char holds.
\* (A message that is put together while mpmgr has a datagram in hand may have the
\* new length and the old bytes; after mpmgr was stopped in order, mgen goes on with
\* the segment it knows; and the offset -1 stores a byte of the payload as its length.)
PayloadTold ==
  mgen.step = "sent" /\ quiet /\ ~segments[mgen.segment].removed /\ ~told.misread =>
    /\ mgen.message.length = told.length
    /\ \A i \in 1..told.length : mgen.message.bytes[i] = told.bytes[i]
================================================================================
