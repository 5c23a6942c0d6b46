CONSTANTS
  WordSize = 1073741824
  LabelNames = {"p", "q"}
  Programs <- Miscompiled
  Files = {}
  Covered <- AnyProgram
SPECIFICATION Spec
PROPERTY ProgramMeaning
CHECK_DEADLOCK FALSE
