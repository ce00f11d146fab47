\* Two messages, up to three lines of output each.
CONSTANTS
  Lines <- SomeLines
  Overlong = Overlong
  PipeRoom = 2
  MaxLines = 3
  MaxMessages = 2
SPECIFICATION FairSpec
INVARIANTS DirectivesAreWhole EachLineOnce AnswerIsWhole NoAgentLeft
PROPERTY TurnsEnd
CHECK_DEADLOCK FALSE
