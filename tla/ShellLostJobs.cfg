CONSTANTS
  HistorySize = 3
  JobSlots = 2
  Executables = {"ls"}
  Lines <- JobLines
  MaxLines = 5
  MaxForks = 3
SPECIFICATION Spec
PROPERTY JobsComplete
CHECK_DEADLOCK FALSE
