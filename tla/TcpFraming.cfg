SPECIFICATION FairSpec
CONSTANTS
  BufferSize = 16
  MaxFragSize = 40
  MinFragSize = 7
  Lengths = {7, 8, 11, 12, 13, 15, 16, 17, 18, 19, 20, 21, 24, 25, 32, 33, 35, 36, 39, 40, 41, 46, 47, 48, 57, 60, 80, 86, 87, 90}
  Capacity = 6
  Cuts = {}
INVARIANTS ChecksumRoom FragmentsRead ChecksumsHold
PROPERTIES Transmitted
