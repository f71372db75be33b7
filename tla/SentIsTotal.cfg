SPECIFICATION BytesSpec
CONSTANTS
  None = None
  SegLen = 2
  SendChunk = 6
  GetChunk = 8
  BufSize = 3
  Arrays <- MCArrays
  Cuts = {1, 2, 3, 4}
  MaxSaves = 2
  MaxGets = 2
  MaxLost = 1
INVARIANT SentIsTotal
CHECK_DEADLOCK FALSE
