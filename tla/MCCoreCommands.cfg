SPECIFICATION Spec
CONSTANTS
  n1 = n1
  n2 = n2
  id1 = id1
  id2 = id2
  id3 = id3
  address = address
  Calls <- MCCalls
  NoId = NoId
  Window = 2
  Numbers = {n0, n1, n2}
  Outside = outside
  Word = word
  NoValue = NoValue
  Default = n0
  Served = {address}
  Separator = separator
  Downloads = {d1}
  NoFile = NoFile
  Torn = Torn
  MaxCalls = 5
  MaxCrash = 2
INVARIANTS NoReplay FileIsWhole MemoryIsPersisted
CHECK_DEADLOCK FALSE
