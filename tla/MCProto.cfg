SPECIFICATION Spec
CONSTANTS
  Bytes = {0, 1}
  ShortMod = 8
  MaxQuery = 12
  Texts <- MCTexts
  TailTexts <- MCTailTexts
  BatchTexts <- MCBatchTexts
  Chunks <- MCChunks
  MaxReplies = 5
INVARIANTS RequestUnderstood Reassembled AnswerIsLast
CHECK_DEADLOCK FALSE
