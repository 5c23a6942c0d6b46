CONSTANTS
  WordSize = 1073741824
  LabelNames = {"p", "q"}
  Programs <- MCPrograms
  Files <- MCFiles
  Covered <- Supported
SPECIFICATION Spec
INVARIANTS BranchesReach InstructionsSurvive NothingHalfWritten ListingReassembles ParsesBack
PROPERTIES CallsReturn ProgramMeaning
CHECK_DEADLOCK FALSE
