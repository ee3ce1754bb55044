------------------------------ MODULE ReportFormat ------------------------------
(***************************************************************************)
(* A report as the bytes that a message carries (MgenAnalytic::Report): laid*)
(* out once for a flow by MgenAnalytic::Init, written over at the end of   *)
(* every window and when it is sent, and read by whoever receives it.      *)
(* Where a field is depends on the type of the addresses and on a flag.    *)
(*                                                                         *)
(* A time is that of a step of the table of quantized times, or between.   *)
(***************************************************************************)
EXTENDS Integers, SequencesExt

CONSTANTS Addresses,   \* records with len, byte and port
          FlowIds, Protocols,
          Table,       \* the times of the quantized values 0, 1, 2...
          Updates,     \* what the end of a window may set: records with
                       \* size offset ave min max rate lost of
          MaxWindows

VARIABLES buffer,      \* report_buffer
          given,       \* the flow, and the window that was set last
          windows      \* windows so far

vars == <<buffer, given, windows>>

MAX_LENGTH == 52
OFFSET_DST == 4
FLAG_FLOW_ID == 1
FLAG_LATENCY_SIGN == 2

Abs(n) == IF n < 0 THEN -n ELSE n

-------------------------------------------------------------------------------
(***************************************************************************)
(* Bytes and where the fields are.                                         *)
(***************************************************************************)
SetUINT8(b, i, v) == [b EXCEPT ![i] = v % 256]
SetUINT16(b, i, v) == [b EXCEPT ![i] = (v \div 256) % 256, ![i + 1] = v % 256]
SetUINT32(b, i, v) == SetUINT16(SetUINT16(b, i, v \div 65536), i + 2, v)

GetUINT16(b, i) == 256 * b[i] + b[i + 1]
GetUINT32(b, i) == 65536 * GetUINT16(b, i) + GetUINT16(b, i + 2)

PutAddress(b, offset, a) ==
  [i \in DOMAIN b |-> IF i \in offset..offset + a.len - 1 THEN a.byte ELSE b[i]]

GetReportType(b) == b[0] \div 16
GetAddrLen(b) == CASE GetReportType(b) = 1 -> 4 [] GetReportType(b) = 2 -> 16 [] OTHER -> 0
FlagIsSet(b, flag) == (b[2] \div (32 * flag)) % 2 = 1

OffsetSrc(b) == OFFSET_DST + GetAddrLen(b)
OffsetDstPort(b) == OffsetSrc(b) + GetAddrLen(b)
OffsetFlowId(b) == OffsetDstPort(b) + 4
OffsetWindowSize(b) == OffsetFlowId(b) + IF FlagIsSet(b, FLAG_FLOW_ID) THEN 4 ELSE 0
OffsetRateAve(b) == OffsetWindowSize(b) + 4
OffsetLossFraction(b) == OffsetRateAve(b) + 2

SetReportType(b, type) == [b EXCEPT ![0] = 16 * type + (@ % 16)]
SetReportLength(b, length) == [b EXCEPT ![1] = length]
SetFlag(b, flag) == IF FlagIsSet(b, flag) THEN b ELSE [b EXCEPT ![2] = @ + 32 * flag]

-------------------------------------------------------------------------------
(***************************************************************************)
(* Numbers of few bits.                                                    *)
(***************************************************************************)
\* The step nearest to a time; past the last one it is the last.
QuantizeTimeValue(t) ==
  (CHOOSE q \in DOMAIN Table : \A p \in DOMAIN Table : Abs(Table[q] - t) <= Abs(Table[p] - t)) - 1
UnquantizeTimeValue(q) == IF q + 1 \in DOMAIN Table THEN Table[q + 1] ELSE Table[Len(Table)]

PowerOfTen == <<1, 10, 100, 1000, 10000, 100000, 1000000>>
Exponent(rate) == CHOOSE e \in 0..5 : PowerOfTen[e + 1] <= rate /\ rate < PowerOfTen[e + 2]

\* Twelve bits of mantissa and four of exponent; one bit more is lost.
QuantizeRate(rate) ==
  IF rate <= 0 THEN 1
  ELSE LET e == Exponent(rate)
           above == PowerOfTen[e + 2]
       IN ((16 * ((8192 * rate + above) \div (2 * above))) % 65536) + e

\* To the nearest, in 4096 steps of each power of ten.
UnquantizeRate(q) == ((q \div 16) * PowerOfTen[(q % 16) + 2] + 2048) \div 4096

\* Of the messages, how many were lost, in 65535ths.
QuantizeLoss(lost, of) ==
  IF lost = 0 THEN 0
  ELSE LET q == (2 * 65535 * lost + of) \div (2 * of) IN IF q = 0 THEN 1 ELSE q

-------------------------------------------------------------------------------
InitIntoBuffer(b) ==
  SetReportLength(SetReportType([i \in DOMAIN b |-> IF i < 16 THEN 0 ELSE b[i]], 1), 16)

TypeOf(a) == IF a.len = 4 THEN 1 ELSE 2

SetDstAddr(b, a) ==
  LET c == PutAddress(SetReportLength(SetReportType(b, TypeOf(a)), 16 + 2 * a.len), OFFSET_DST, a)
  IN SetUINT16(c, OffsetDstPort(c), a.port)

SetSrcAddr(b, a) ==
  LET c == SetReportLength(SetReportType(b, TypeOf(a)), 16 + 2 * a.len)
      d == PutAddress(c, OffsetSrc(c), a)
  IN SetUINT16(d, OffsetDstPort(d) + 2, a.port)

SetFlowId(b, id) ==
  LET c == SetFlag(b, FLAG_FLOW_ID)
  IN SetReportLength(SetUINT32(c, OffsetFlowId(c), id), OffsetSrc(b) + GetAddrLen(b) + 16)

SetProtocol(b, protocol) == [b EXCEPT ![0] = 16 * (@ \div 16) + protocol]

SetWindowSize(b, t) == SetUINT8(b, OffsetWindowSize(b), QuantizeTimeValue(t))

\* Mutant: the flags beside the offset are written over.
SetWindowOffsetOver(b, t) == SetUINT16(b, 2, QuantizeTimeValue(t))
SetWindowOffset(b, t) ==
  SetUINT16(b, 2, (GetUINT16(b, 2) \div 8192) * 8192 + QuantizeTimeValue(t))

\* The sign is set and never taken back.
SetLatencyAve(b, t) ==
  LET c == IF t < 0 THEN SetFlag(b, FLAG_LATENCY_SIGN) ELSE b
  IN SetUINT8(c, OffsetWindowSize(c) + 1, QuantizeTimeValue(Abs(t)))

SetLatencyDeltas(b, min, max) ==
  LET c == SetUINT8(b, OffsetWindowSize(b) + 2, QuantizeTimeValue(Abs(min)))
  IN SetUINT8(c, OffsetWindowSize(c) + 3, QuantizeTimeValue(Abs(max)))

SetRateAve(b, rate) == SetUINT16(b, OffsetRateAve(b), QuantizeRate(rate))
SetLossFraction(b, lost, of) ==
  SetUINT16(b, OffsetLossFraction(b), QuantizeLoss(lost, of))

-------------------------------------------------------------------------------
\* What was in the buffer before is anything: here, ones. A flow of number 1 is
\* not given its number.
Laid(protocol, src, dst, id, size) ==
  LET a == SetProtocol(InitIntoBuffer([i \in 0..MAX_LENGTH - 1 |-> 255]), protocol)
      b == SetSrcAddr(SetDstAddr(a, dst), src)
  IN SetWindowSize(IF id # 1 THEN SetFlowId(b, id) ELSE b, size)

Init ==
  \E protocol \in Protocols, src \in Addresses, dst \in Addresses, id \in FlowIds, u \in Updates :
    /\ src.len = dst.len
    /\ buffer = Laid(protocol, src, dst, id, u.size)
    /\ given = [flow |-> [protocol |-> protocol, src |-> src, dst |-> dst, id |-> id],
               window |-> u]
    /\ windows = 0

\* The end of a window, and the report of it that goes out.
Update(u) ==
  /\ windows < MaxWindows
  /\ LET timed == SetLatencyAve(SetWindowSize(buffer, u.size), u.ave)
         rated == SetRateAve(SetLatencyDeltas(timed, u.ave - u.min, u.max - u.ave), u.rate)
     IN buffer' = SetWindowOffset(SetLossFraction(rated, u.lost, u.of), u.offset)
  /\ given' = [given EXCEPT !.window = u]
  /\ windows' = windows + 1

Next == \E u \in Updates : Update(u)

Spec == Init /\ [][Next]_vars

-------------------------------------------------------------------------------
(***************************************************************************)
(* What a receiver reads.                                                  *)
(***************************************************************************)
InitFromBuffer(b) == GetAddrLen(b) # 0 /\ b[1] = OffsetLossFraction(b) + 2

GetFlowId(b) == IF FlagIsSet(b, FLAG_FLOW_ID) THEN GetUINT32(b, OffsetFlowId(b)) ELSE 0
Time(b, offset) == UnquantizeTimeValue(b[offset])
GetWindowOffset(b) == UnquantizeTimeValue(GetUINT16(b, 2) % 8192)
GetLatencyAve(b) ==
  LET ave == Time(b, OffsetWindowSize(b) + 1)
  IN IF FlagIsSet(b, FLAG_LATENCY_SIGN) THEN -ave ELSE ave
GetLatencyMin(b) == GetLatencyAve(b) - Time(b, OffsetWindowSize(b) + 2)
GetLatencyMax(b) == GetLatencyAve(b) + Time(b, OffsetWindowSize(b) + 3)
GetRateAve(b) == UnquantizeRate(GetUINT16(b, OffsetRateAve(b)))

-------------------------------------------------------------------------------
TypeOK ==
  /\ buffer \in [0..MAX_LENGTH - 1 -> 0..255]
  /\ windows \in 0..MaxWindows

\* How far a time is from the nearest step.
Off(t) == Abs(UnquantizeTimeValue(QuantizeTimeValue(t)) - t)

FlowRead(flow) ==
  /\ buffer[0] % 16 = flow.protocol
  /\ \A i \in 0..flow.dst.len - 1 : /\ buffer[OFFSET_DST + i] = flow.dst.byte
                                   /\ buffer[OffsetSrc(buffer) + i] = flow.src.byte
  /\ GetUINT16(buffer, OffsetDstPort(buffer)) = flow.dst.port
  /\ GetUINT16(buffer, OffsetDstPort(buffer) + 2) = flow.src.port
  /\ GetFlowId(buffer) = IF flow.id = 1 THEN 0 ELSE flow.id

\* The loss to the nearest, but a loss is never none.
LossRead(q, u) ==
  \/ 2 * Abs(u.of * q - 65535 * u.lost) <= u.of
  \/ q = 1 /\ u.lost > 0 /\ 2 * 65535 * u.lost < u.of

WindowRead(u) ==
  /\ Abs(GetWindowOffset(buffer) - u.offset) <= Off(u.offset)
  /\ Abs(GetLatencyAve(buffer) - u.ave) <= Off(Abs(u.ave))
  /\ Abs(GetLatencyMin(buffer) - u.min) <= Off(Abs(u.ave)) + Off(u.ave - u.min)
  /\ Abs(GetLatencyMax(buffer) - u.max) <= Off(Abs(u.ave)) + Off(u.max - u.ave)
  /\ 800 * Abs(GetRateAve(buffer) - u.rate) <= u.rate + 800
  /\ LossRead(GetUINT16(buffer, OffsetLossFraction(buffer)), u)

\* Whatever was set before, a receiver takes a report, tells its flow, and reads
\* of the window what was set last, as finely as its few bits can.
ReportRead ==
  /\ InitFromBuffer(buffer)
  /\ buffer[1] <= MAX_LENGTH
  /\ FlowRead(given.flow)
  /\ Abs(Time(buffer, OffsetWindowSize(buffer)) - given.window.size) <= Off(given.window.size)
  /\ windows > 0 => WindowRead(given.window)
================================================================================
