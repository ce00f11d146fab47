\* Four commands in turn, or three of two processes; an event and an api event.
CONSTANTS
  p1 = p1
  p2 = p2
  event = event
  api = api
  Procs = {p1, p2}
  Rows = {event, api}
  ApiRows = {api}
  MaxStarts = 4
SPECIFICATION BoundedSpec
INVARIANTS RowsSurvive OpenIsNewest
PROPERTIES OneStepBack CommandsEnd
CHECK_DEADLOCK FALSE
