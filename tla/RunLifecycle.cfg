\* Two runs that may extract the same content, two faults and one crash.  All
\* runs end, so the behaviour may stop.
CONSTANTS
  r1 = r1
  r2 = r2
  c1 = c1
  NoContent = NoContent
  Runs <- TwoRuns
  Contents <- OneContent
  MaxFaults = 2
  MaxCrashes = 1
SPECIFICATION FairSpec
INVARIANTS
  TypeOK
  EventsFollowScript
  FinishedRunsAgree
  RowConsistent
  MemoriesConsolidated
PROPERTIES
  EventStatusIsCurrent
  StartedRunsEnd
CHECK_DEADLOCK FALSE
