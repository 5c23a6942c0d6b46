CONSTANTS
  a1 = a1  a2 = a2  v1 = v1  v2 = v2
  Addrs = {a1}
  Vals = {v1, v2}
  Invalid = Invalid
  NumCores = 2
  L1Index <- Conflicting
  L2Index <- Conflicting
  L3Index <- Conflicting
  EnableL3 = FALSE
  LATENCY = 1
  ResetDiv <- PAndECore
  PmuWords <- Scaling
  NoWord = NoWord
  PowerUpLines <- Cleared
  PowerUpStates = {"IDLE"}
SPECIFICATION FairClockSpec
PROPERTIES StoreDurable MemoryFromStores FullSpeedCompletes
