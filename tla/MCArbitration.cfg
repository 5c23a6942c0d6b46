CONSTANTS
  a1 = a1  a2 = a2  v1 = v1  v2 = v2
  Addrs = {a1}
  Vals = {v1}
  Invalid = Invalid
  NumCores = 3
  L1Index <- Conflicting
  L2Index <- Conflicting
  L3Index <- Conflicting
  EnableL3 = TRUE
  LATENCY = 3
SPECIFICATION FairSpec
PROPERTIES BoundedBypass AccessCompletes
