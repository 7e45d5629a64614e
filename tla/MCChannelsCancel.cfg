SPECIFICATION MeetSpec
INVARIANTS
  CancelIsFinal
