CONSTANTS
  a1 = a1  a2 = a2  v1 = v1  v2 = v2
  Addrs <- MCAddrs
  Vals = {v1, v2}
  Invalid = Invalid
  NumCores = 2
  L1Index <- Conflicting
  L2Index <- Separate
  L3Index <- Conflicting
  EnableL3 = TRUE
  LATENCY = 1
SPECIFICATION Spec
SYMMETRY ValSymmetry
INVARIANTS TypeOK L1Coherent WriterExclusive SharedCoherent Handshake
PROPERTIES OneMemory
