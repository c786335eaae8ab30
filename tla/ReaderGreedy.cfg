\* Two frames written without waiting for a response.
CONSTANTS
  Message <- MCMessage
  ReadCap = 2
  MaxMessages = 2
  MaxAnswers = 2
SPECIFICATION TalkSpec
INVARIANT ReadsOneMessage
CHECK_DEADLOCK FALSE
