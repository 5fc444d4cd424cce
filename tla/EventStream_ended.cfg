\* A client whose Last-Event-ID is the terminal event.
CONSTANTS
  c1 = c1
  c2 = c2
  Clients <- OneClient
  MaxEvents = 1
  MaxDrops = 0
  MaxRestarts = 0
SPECIFICATION FairSpec
PROPERTIES
  EndedRunsCloseStreams
CHECK_DEADLOCK FALSE
