\* Two transactions at a time, any number one after the other, over two memories
\* of one content: its three valid identities differ in type and scope.  No
\* request is forced on the table, so it may stop.
CONSTANTS
  q1 = q1
  q2 = q2
  i1 = i1
  i2 = i2
  p1 = p1
  c1 = c1
  Requests <- TwoRequests
  Ids <- TwoIds
  Types <- TypesInUse
  Projects <- OneProject
  Contents <- OneContent
  NoProject = NoProject
  Unset = Unset
  NoRow = NoRow
  NoRequest = NoRequest
  MaxVersion = 2
SPECIFICATION FairSpec
INVARIANTS
  TypeOK
  OneActivePerIdentity
  RefusedOnlyByRace
  OnlyRetrievalsDeadlock
PROPERTIES
  NoLostUpdate
  ImplementsRegister
  RequestsEnd
CHECK_DEADLOCK FALSE
