SPECIFICATION FewStreamsSpec
CONSTANTS
  MaxId = 2
  MaxStreams = 1
  MaxData = 2
  MaxInFlight = 3
  HearsWhileClosing = TRUE
INVARIANTS TypeOK FinalFrame InOrder PeerOpened EndsAgree
PROPERTIES AnswerComplete StreamLifecycle ClosedIsFinal ClosingEnds TeardownReaches
CHECK_DEADLOCK FALSE
