\* Two messages of up to nine bytes, read two bytes at a time, and their answers.
CONSTANTS
  Message <- MCMessage
  ReadCap = 2
  MaxMessages = 2
  MaxAnswers = 2
SPECIFICATION FairTalkSpec
INVARIANTS
  ReaderTypeOK
  WriterTypeOK
  Aligned
  PoliteNeverRefused
  NothingLost
PROPERTIES
  ImplementsChannel
  PoliteHandled
  ResponsesComeOut
\* The peer stops after MaxMessages, and a closed connection is not read.
CHECK_DEADLOCK FALSE
