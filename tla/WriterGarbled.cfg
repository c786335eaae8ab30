\* A response whose header is sent later than Respond has returned.
CONSTANTS
  Message <- MCMessage
  ReadCap = 2
  MaxMessages = 1
  MaxAnswers = 1
SPECIFICATION TalkSpec
INVARIANT SentOrStopped
CHECK_DEADLOCK FALSE
