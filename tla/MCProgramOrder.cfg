CONSTANTS
  PcCount = 4
  Scenarios <- Disordered
  HasBpu = TRUE
  BtbEntries = 2
  Operands = {0, 1}
  Latency = 3
  DivCycles = 4
SPECIFICATION Spec
PROPERTY ProgramOrder
