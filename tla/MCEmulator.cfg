CONSTANTS
  CodeWords = 4
  BinaryWords = 3
  PageWords = 2
  RamPages = 2
  VirtPages = 3
  VecWords = 2
  Data <- TwoEntries
  CsrWrites <- SomeWrites
  OverflowChecks = TRUE
  TestMode = TRUE
SPECIFICATION Spec
PROPERTIES Confined UserKeepsMapping EffectOrTrap PrivilegeLevels
CHECK_DEADLOCK FALSE
