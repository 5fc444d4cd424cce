\* Two memories on pages of one; retrievals do not count as changes.
CONSTANTS
  c1 = c1
  c2 = c2
  Memories <- TwoMemories
  Stamps <- TwoStamps
  PageSize = 1
  Calls <- TwoCalls
  Counted <- WritesOnly
  NoRow = NoRow
  NoCall = NoCall
  NoAnswer = NoAnswer
SPECIFICATION Spec
INVARIANT PagingIsStable
