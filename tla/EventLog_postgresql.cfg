\* Two runs, two overlapping transactions, the production dialect.  Once every
\* log holds MaxEvents events nothing is left to append, so the runs may stop.
CONSTANTS
  r1 = r1
  r2 = r2
  w1 = w1
  w2 = w2
  w3 = w3
  NoWriter = NoWriter
  Runs <- TwoRuns
  Writers <- TwoWriters
  RowLock = TRUE
  MaxEvents = 2
SPECIFICATION FairSpec
INVARIANTS
  TypeOK
  SequencesNeverCollide
  AnnouncedIsCommitted
PROPERTIES
  AppendsEnd
CHECK_DEADLOCK FALSE
