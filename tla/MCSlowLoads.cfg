CONSTANTS
  a1 = a1  a2 = a2  v1 = v1  v2 = v2
  Addrs <- MCAddrs
  Vals = {v1, v2}
  Invalid = Invalid
  NumCores = 2
  L1Index <- Separate
  L2Index <- Separate
  L3Index <- Separate
  EnableL3 = TRUE
  LATENCY = 3
  ResetDiv <- PAndECore
  PmuWords <- Gating
  NoWord = NoWord
  PowerUpLines <- Cleared
  PowerUpStates = {"IDLE"}
SPECIFICATION ClockSpec
PROPERTY LoadCurrent
