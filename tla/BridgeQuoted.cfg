\* One message, one line of output.
CONSTANTS
  Lines <- SomeLines
  Overlong = Overlong
  PipeRoom = 1
  MaxLines = 1
  MaxMessages = 1
SPECIFICATION Spec
INVARIANT SingleLinesAreParsed
CHECK_DEADLOCK FALSE
