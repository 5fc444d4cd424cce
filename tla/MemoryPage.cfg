\* Three memories on pages of one, two time stamps (a row can move above or
\* below the cursor and tie with another), two requests in flight.  No deadlock
\* can occur: anyone may write.
CONSTANTS
  c1 = c1
  c2 = c2
  Memories <- ThreeMemories
  Stamps <- TwoStamps
  PageSize = 1
  Calls <- TwoCalls
  Counted <- AllChanges
  NoRow = NoRow
  NoCall = NoCall
  NoAnswer = NoAnswer
SYMMETRY CallSymmetry
SPECIFICATION Spec
INVARIANTS
  TypeOK
  UnchangedListedOnce
