SPECIFICATION Spec
CONSTANTS
  TLB_ENTRIES = 3
  Page = {0, 1}
  Frame = {0, 2}
  Rights <- SomeRights
PROPERTY
  AnswersFromWindow
