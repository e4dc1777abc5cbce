\* A prompt of the dashboard, and a program that may reuse its session id.
CONSTANTS
  r1 = r1
  r2 = r2
  Runs = {r1, r2}
  Local = {r1}
  MaxMessages = 3
  MaxSteps = 2
  Retention = 1
  NoRecord = NoRecord
  Live = Live
  Over = Over
SPECIFICATION Spec
INVARIANTS
  AnsweredInOrder
  StepsDoNotMix
  RecordTellsSteps
PROPERTIES
  EndedIsOver
  RunsEnd
