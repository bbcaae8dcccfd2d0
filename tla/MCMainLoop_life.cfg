CONSTANTS
  MaxInput = 2
  MaxFaults = 2
SPECIFICATION LiveSpec
INVARIANTS ExitClean AnsweredFromStorage
PROPERTIES StopHonoured OnlyIpcDelaysAlarm
