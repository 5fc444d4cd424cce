\* One run, three overlapping transactions, no row lock: only the unique
\* constraint orders the writers.  A full log (MaxEvents) ends the behaviour.
CONSTANTS
  r1 = r1
  r2 = r2
  w1 = w1
  w2 = w2
  w3 = w3
  NoWriter = NoWriter
  Runs <- OneRun
  Writers <- ThreeWriters
  RowLock = FALSE
  MaxEvents = 4
SPECIFICATION Spec
INVARIANTS
  Gapless
PROPERTIES
  ImplementsLog
CHECK_DEADLOCK FALSE
