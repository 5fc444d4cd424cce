\* Three submissions or resets, so that the answers of two runs cross and one is two
\* of them late; runs of three events that may fail, be lost or be garbled at each; two
\* broken connections; the page is left twice.  Everything may come to rest.
CONSTANTS
  Script <- ThreeEvents
  NoRun = NoRun
  NoMessage = NoMessage
  MaxTokens = 3
  MaxDrops = 2
  MaxLeaves = 2
SPECIFICATION FairSpec
INVARIANTS
  TypeOK
  TimelineOfCreatedRun
  AnswerInItsMessage
  PendingOnlyWhileBusy
PROPERTIES
  CompletedMessagesStay
  BusyEnds
CHECK_DEADLOCK FALSE
