CONSTANTS
  HistorySize = 2
  JobSlots = 2
  Executables = {"ls"}
  Lines <- AllLines
  MaxLines = 4
  MaxForks = 3
SPECIFICATION FairSpec
INVARIANTS
  TypeOK
  HistoryNumbers
  DisplayedLatest
  RerunSameWords
  NoFailedRerun
  ErrorFlagSound
  ForegroundDone
  ListedWereRunning
PROPERTY PromptReturns
CHECK_DEADLOCK FALSE
