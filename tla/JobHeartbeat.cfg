SPECIFICATION Spec
CONSTANTS
  Start = 3
  Repeat = 2
  MaxNotices = 3
  TerminalNotices = 3
  Gap = 2
  MaxTime = 20
CONSTRAINT ClockBound
INVARIANTS
  TypeOK
  TimeoutIsPrompt
PROPERTIES
  NoEarlyTimeout
