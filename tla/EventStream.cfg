\* Two clients of the same run, three events, two lost connections, one
\* restart.  Clients leave and the log is full after three events, so the
\* behaviour may stop.
CONSTANTS
  c1 = c1
  c2 = c2
  Clients <- TwoClients
  MaxEvents = 3
  MaxDrops = 2
  MaxRestarts = 1
SPECIFICATION FairSpec
INVARIANTS
  TypeOK
  DeliveredInOrder
PROPERTIES
  ImplementsFeed
  EventuallyDelivered
  StreamsEnd
CHECK_DEADLOCK FALSE
