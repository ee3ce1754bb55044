SPECIFICATION MCSpec
CONSTANTS
  Modulus = 16
  FirstNumber = 13
  Messages = 6
  History = 4
  Window = 2
  Waits = {0, 1, 3}
  Skew = 1
  MaxLag = 3
  MaxArrivals = 5
  Analytics = {x, y, z}
  NoAnalytic = none
  Reciprocal = {x, y}
  Feedback = TRUE
  MaxRoom = 2
  ExactFit = FALSE
  AddressLengths = {4, 16}
  HostLengths = {0, 4, 16}
  DataLengths = {0, 3}
  ItemLengths = {2, 5}
  UdpSizes = {28, 29, 31, 32, 33, 36, 40, 41, 44, 45, 46, 47, 48, 49, 50, 51, 52, 53, 55, 56, 57, 58, 60, 61, 63, 64, 65, 68, 69, 73, 74, 75, 76, 77, 78, 79, 80, 81, 82, 83, 84, 85, 86}
  TcpSizes = {76, 78, 81, 90}
  EndsInLength = FALSE
  Ids = {3, 11, 25}
  MAX_FLOW = 40
  BufferRoom = 12
  MaxNamed = 2
  MaxOns = 2
  Events <- SampleEvents
  OtherOrders = FALSE
  Flush = TRUE
  MaxEvents = 4
  MaxRuns = 2
  ReportAddresses <- SampleAddresses
  ReportFlows = {1, 2, 300}
  ReportProtocols = {1, 2}
  TimeTable <- SampleTable
  EndedWindows <- SampleUpdates
  MaxWindows = 3
  PAYLOAD_MAX = 2
  NegativeChars = 1
  Values = {0, 3}
  OldSizes = {2}
  MaxSegments = 2
INVARIANTS ReportsExact Listed ReportRead Logged AsTold Recreated PayloadTold
PROPERTIES AllReported
CHECK_DEADLOCK FALSE
