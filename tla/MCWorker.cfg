SPECIFICATION LiveSpec
CONSTANTS
  Methods = {"create", "local", "missing", "net", "connect", "connectedRemote", "watch", "watchChanges", "remote", "remoteMissing", "onReboot", "closeWatch", "closeRemote"}
  MaxCalls = 4
  MaxNotes = 1
INVARIANTS NoOrphanReturn ClosedIsReleased HandleValid
PROPERTIES ApiRefined Answered
CHECK_DEADLOCK FALSE
