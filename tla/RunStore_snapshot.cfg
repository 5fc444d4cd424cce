\* Two submissions: the second is sent while the first one's snapshot is awaited.
CONSTANTS
  Script <- ThreeEvents
  NoRun = NoRun
  NoMessage = NoMessage
  MaxTokens = 2
  MaxDrops = 0
  MaxLeaves = 0
SPECIFICATION Spec
INVARIANT OldRunsDoNotShow
CHECK_DEADLOCK FALSE
