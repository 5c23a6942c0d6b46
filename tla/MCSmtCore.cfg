CONSTANTS
  PcCount = 4
  Scenarios <- AllScenarios
  HasBpu = TRUE
  BtbEntries = 2
  Operands = {0, 1}
  Latency = 3
  DivCycles = 4
SPECIFICATION FairSpec
INVARIANTS TypeOK StagesAlternate
PROPERTIES ThreadsInOrder ResultOfOperands TrapsPrecise ReturnsAfterSlot ThreadsRun
