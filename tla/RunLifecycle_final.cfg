\* One fault while run.completed is published.
CONSTANTS
  r1 = r1
  r2 = r2
  c1 = c1
  NoContent = NoContent
  Runs <- OneRun
  Contents <- OneContent
  MaxFaults = 1
  MaxCrashes = 0
SPECIFICATION Spec
PROPERTIES
  TerminalStatusIsFinal
CHECK_DEADLOCK FALSE
